---------------------------- MODULE Spec2Model ----------------------------
(***************************************************************************)
(* Model of the sf2e-forge-custom converter core: the statblock normaliser *)
(* (bestiary-parse), its primitive parsers and the ability-text enrichment *)
(* pipeline (enrich).  Text is modelled character by character: a string   *)
(* is a sequence of one-character strings, and every regular expression of *)
(* the source is an operator that matches as the expression matches.       *)
(***************************************************************************)
EXTENDS Integers, Sequences, FiniteSets, TLC

(***************************************************************************)
(* Characters and strings                                                  *)
(***************************************************************************)
DigitSeq == <<"0","1","2","3","4","5","6","7","8","9">>
LowerSeq == <<"a","b","c","d","e","f","g","h","i","j","k","l","m","n","o","p","q","r","s","t","u","v","w","x","y","z">>
UpperSeq == <<"A","B","C","D","E","F","G","H","I","J","K","L","M","N","O","P","Q","R","S","T","U","V","W","X","Y","Z">>

DigitChars == {DigitSeq[i] : i \in 1..Len(DigitSeq)}
LowerChars == {LowerSeq[i] : i \in 1..Len(LowerSeq)}
UpperChars == {UpperSeq[i] : i \in 1..Len(UpperSeq)}
\* \s of the regular expressions, over the characters the model uses
SpaceChars == {" ", "\n", "\t"}
\* \w of the regular expressions
WordChars == DigitChars \cup LowerChars \cup UpperChars \cup {"_"}

LowerOf == [c \in UpperChars |-> LowerSeq[CHOOSE i \in 1..Len(UpperSeq) : UpperSeq[i] = c]]
UpperOf == [c \in LowerChars |-> UpperSeq[CHOOSE i \in 1..Len(LowerSeq) : LowerSeq[i] = c]]

Min(S) == CHOOSE x \in S : \A y \in S : x <= y

toLowerCaseChar(c) == IF c \in UpperChars THEN LowerOf[c] ELSE c
toUpperCaseChar(c) == IF c \in LowerChars THEN UpperOf[c] ELSE c

toLowerCase(s) == [i \in 1..Len(s) |-> toLowerCaseChar(s[i])]
toUpperCase(s) == [i \in 1..Len(s) |-> toUpperCaseChar(s[i])]

\* s.slice(from) with a 0-based index, as in JavaScript
sliceFrom(s, from) == SubSeq(s, from + 1, Len(s))

\* the first index at or after i whose character is outside class (Len(s)+1
\* when there is none): where a greedy class* started at i stops
RECURSIVE SkipClass(_, _, _)
SkipClass(s, i, class) ==
    IF i > Len(s) \/ s[i] \notin class THEN i ELSE SkipClass(s, i + 1, class)

\* the last index at or before i whose character is outside class (0 when
\* there is none)
RECURSIVE SkipClassBack(_, _, _)
SkipClassBack(s, i, class) ==
    IF i < 1 \/ s[i] \notin class THEN i ELSE SkipClassBack(s, i - 1, class)

\* String.prototype.trim
trim(s) ==
    SubSeq(s, SkipClass(s, 1, SpaceChars), SkipClassBack(s, Len(s), SpaceChars))

\* the literal lit occurs in s at index i
LitAt(s, i, lit) ==
    /\ i >= 1
    /\ i + Len(lit) - 1 <= Len(s)
    /\ \A k \in 1..Len(lit) : s[i + k - 1] = lit[k]

\* the same under the i flag; lit is given in lower case
LitAtCI(s, i, lit) ==
    /\ i >= 1
    /\ i + Len(lit) - 1 <= Len(s)
    /\ \A k \in 1..Len(lit) : toLowerCaseChar(s[i + k - 1]) = lit[k]

\* the first alternative of alts (lower case) that occurs at i under the i
\* flag, as an index into alts; 0 when none does
FirstAltCI(s, i, alts) ==
    LET hit == {k \in 1..Len(alts) : LitAtCI(s, i, alts[k])}
    IN  IF hit = {} THEN 0 ELSE CHOOSE k \in hit : \A m \in hit : k <= m

FirstAlt(s, i, alts) ==
    LET hit == {k \in 1..Len(alts) : LitAt(s, i, alts[k])}
    IN  IF hit = {} THEN 0 ELSE CHOOSE k \in hit : \A m \in hit : k <= m

\* \b between s[i-1] and s[i]
IsWordAt(s, i) == i >= 1 /\ i <= Len(s) /\ s[i] \in WordChars
WordBoundary(s, i) == IsWordAt(s, i - 1) # IsWordAt(s, i)

\* String.prototype.replace with a g-flag expression: ends[i] is the index
\* after the match that starts at i (0: no match at i), repls[i] its
\* replacement.  Matches are taken leftmost first and do not overlap: the
\* search for the next one resumes at the index after the last.
ReplaceAll(s, ends, repls) ==
    LET starts == {j \in 1..Len(s) : ends[j] > 0}
        out[i \in 1..(Len(s) + 1)] ==
            LET later == {j \in starts : j >= i}
            IN  IF later = {} THEN SubSeq(s, i, Len(s))
                ELSE LET j == Min(later)
                     IN  SubSeq(s, i, j - 1) \o repls[j] \o out[ends[j]]
    IN  out[1]

\* RegExp.prototype.test: the expression matches somewhere
HasMatch(ends) == \E i \in DOMAIN ends : ends[i] > 0

\* String.prototype.split on an expression without capture groups; ends[i]
\* is the index after the separator that starts at i (0: none)
Split(s, ends) ==
    LET starts == {j \in 1..Len(s) : ends[j] > 0}
        pieces[i \in 1..(Len(s) + 1)] ==
            LET later == {j \in starts : j >= i}
            IN  IF later = {} THEN <<SubSeq(s, i, Len(s))>>
                ELSE LET j == Min(later)
                     IN  <<SubSeq(s, i, j - 1)>> \o pieces[ends[j]]
    IN  pieces[1]

\* the members of a list of lists, in order (flatMap)
RECURSIVE Concat(_)
Concat(seqs) == IF Len(seqs) = 0 THEN <<>> ELSE seqs[1] \o Concat(Tail(seqs))

\* Array.prototype.join
RECURSIVE Join(_, _)
Join(parts, sep) ==
    IF Len(parts) = 0 THEN <<>>
    ELSE IF Len(parts) = 1 THEN parts[1]
    ELSE parts[1] \o sep \o Join(Tail(parts), sep)

(***************************************************************************)
(* Text enrichment pipeline (enrich.ts)                                    *)
(***************************************************************************)
SYSTEM_ID == <<"s","f","2","e">>

DAMAGE_TYPES ==
    << <<"p","i","e","r","c","i","n","g">>, <<"s","l","a","s","h","i","n","g">>, <<"b","l","u","d","g","e","o","n","i","n","g">>, <<"f","i","r","e">>, <<"c","o","l","d">>,
       <<"e","l","e","c","t","r","i","c","i","t","y">>, <<"a","c","i","d">>, <<"s","o","n","i","c">>, <<"f","o","r","c","e">>, <<"m","e","n","t","a","l">>, <<"p","o","i","s","o","n">>,
       <<"b","l","e","e","d">>, <<"v","i","t","a","l","i","t","y">>, <<"v","o","i","d">> >>

VALUED_CONDITIONS ==
    << <<"f","r","i","g","h","t","e","n","e","d">>, <<"s","i","c","k","e","n","e","d">>, <<"s","t","u","n","n","e","d">>, <<"s","l","o","w","e","d">>, <<"c","l","u","m","s","y">>,
       <<"e","n","f","e","e","b","l","e","d">>, <<"d","r","a","i","n","e","d">>, <<"s","t","u","p","e","f","i","e","d">>, <<"d","o","o","m","e","d">>, <<"w","o","u","n","d","e","d">>,
       <<"d","y","i","n","g">> >>

VALUELESS_CONDITIONS ==
    << <<"o","f","f","-","g","u","a","r","d">>, <<"b","l","i","n","d","e","d">>, <<"d","e","a","f","e","n","e","d">>, <<"p","a","r","a","l","y","z","e","d">>, <<"p","e","t","r","i","f","i","e","d">>,
       <<"i","m","m","o","b","i","l","i","z","e","d">>, <<"g","r","a","b","b","e","d">>, <<"r","e","s","t","r","a","i","n","e","d">>, <<"f","a","s","c","i","n","a","t","e","d">>, <<"f","l","e","e","i","n","g">>,
       <<"u","n","c","o","n","s","c","i","o","u","s">>, <<"i","n","v","i","s","i","b","l","e">>, <<"q","u","i","c","k","e","n","e","d">>, <<"p","r","o","n","e">>, <<"d","a","z","z","l","e","d">>,
       <<"f","a","t","i","g","u","e","d">>, <<"e","n","c","u","m","b","e","r","e","d">> >>

CONDITION_ITEM_MAP ==
    (<<"o","f","f","-","g","u","a","r","d">> :> <<"O","f","f","-","G","u","a","r","d">>) @@ (<<"b","l","i","n","d","e","d">> :> <<"B","l","i","n","d","e","d">>) @@
    (<<"d","e","a","f","e","n","e","d">> :> <<"D","e","a","f","e","n","e","d">>) @@ (<<"p","a","r","a","l","y","z","e","d">> :> <<"P","a","r","a","l","y","z","e","d">>) @@
    (<<"p","e","t","r","i","f","i","e","d">> :> <<"P","e","t","r","i","f","i","e","d">>) @@ (<<"i","m","m","o","b","i","l","i","z","e","d">> :> <<"I","m","m","o","b","i","l","i","z","e","d">>) @@
    (<<"g","r","a","b","b","e","d">> :> <<"G","r","a","b","b","e","d">>) @@ (<<"r","e","s","t","r","a","i","n","e","d">> :> <<"R","e","s","t","r","a","i","n","e","d">>) @@
    (<<"f","a","s","c","i","n","a","t","e","d">> :> <<"F","a","s","c","i","n","a","t","e","d">>) @@ (<<"f","l","e","e","i","n","g">> :> <<"F","l","e","e","i","n","g">>) @@
    (<<"u","n","c","o","n","s","c","i","o","u","s">> :> <<"U","n","c","o","n","s","c","i","o","u","s">>) @@ (<<"i","n","v","i","s","i","b","l","e">> :> <<"I","n","v","i","s","i","b","l","e">>) @@
    (<<"q","u","i","c","k","e","n","e","d">> :> <<"Q","u","i","c","k","e","n","e","d">>) @@ (<<"p","r","o","n","e">> :> <<"P","r","o","n","e">>) @@
    (<<"d","a","z","z","l","e","d">> :> <<"D","a","z","z","l","e","d">>) @@ (<<"f","a","t","i","g","u","e","d">> :> <<"F","a","t","i","g","u","e","d">>) @@
    (<<"e","n","c","u","m","b","e","r","e","d">> :> <<"E","n","c","u","m","b","e","r","e","d">>) @@ (<<"f","r","i","g","h","t","e","n","e","d">> :> <<"F","r","i","g","h","t","e","n","e","d">>) @@
    (<<"s","i","c","k","e","n","e","d">> :> <<"S","i","c","k","e","n","e","d">>) @@ (<<"s","t","u","n","n","e","d">> :> <<"S","t","u","n","n","e","d">>) @@
    (<<"s","l","o","w","e","d">> :> <<"S","l","o","w","e","d">>) @@ (<<"c","l","u","m","s","y">> :> <<"C","l","u","m","s","y">>) @@
    (<<"e","n","f","e","e","b","l","e","d">> :> <<"E","n","f","e","e","b","l","e","d">>) @@ (<<"d","r","a","i","n","e","d">> :> <<"D","r","a","i","n","e","d">>) @@
    (<<"s","t","u","p","e","f","i","e","d">> :> <<"S","t","u","p","e","f","i","e","d">>) @@ (<<"d","o","o","m","e","d">> :> <<"D","o","o","m","e","d">>) @@
    (<<"w","o","u","n","d","e","d">> :> <<"W","o","u","n","d","e","d">>) @@ (<<"d","y","i","n","g">> :> <<"D","y","i","n","g">>)

\* capitalise without the change of case
capitaliseKeepingCase(s) == s

\* s.charAt(0).toUpperCase() + s.slice(1).toLowerCase()
capitalise(s) ==
    IF Len(s) = 0 THEN <<>>
    ELSE <<toUpperCaseChar(s[1])>> \o toLowerCase(sliceFrom(s, 1))

NoMatch == [end |-> 0, g1 |-> <<>>, g2 |-> <<>>, g3 |-> <<>>, g4 |-> <<>>]

\* /DC\s+(\d+)\s+(basic\s+)?(Fortitude|Reflex|Will)\s+(sav(?:e|ing throw))/gi
\* matched at index i: end is the index after the match, g1..g4 the groups
SAVE_TYPES == << <<"f","o","r","t","i","t","u","d","e">>, <<"r","e","f","l","e","x">>, <<"w","i","l","l">> >>
SAVE_WORDS == << <<"s","a","v","e">>, <<"s","a","v","i","n","g"," ","t","h","r","o","w">> >>
CheckMatch(s, i) ==
    IF ~LitAtCI(s, i, <<"d","c">>) THEN NoMatch
    ELSE
    LET dcFrom == SkipClass(s, i + 2, SpaceChars)
        dcTo   == SkipClass(s, dcFrom, DigitChars)
        next   == SkipClass(s, dcTo, SpaceChars)
        basicTo == SkipClass(s, next + 5, SpaceChars)
        basic  == LitAtCI(s, next, <<"b","a","s","i","c">>) /\ basicTo > next + 5
        typeAt == IF basic THEN basicTo ELSE next
        type   == FirstAltCI(s, typeAt, SAVE_TYPES)
        typeTo == typeAt + Len(SAVE_TYPES[type])
        wordAt == SkipClass(s, typeTo, SpaceChars)
        word   == FirstAltCI(s, wordAt, SAVE_WORDS)
        wordTo == wordAt + Len(SAVE_WORDS[word])
    IN  IF dcFrom = i + 2 \/ dcTo = dcFrom \/ next = dcTo THEN NoMatch
        ELSE IF type = 0 THEN NoMatch
        ELSE IF wordAt = typeTo \/ word = 0 THEN NoMatch
        ELSE [end |-> wordTo,
              g1 |-> SubSeq(s, dcFrom, dcTo - 1),
              g2 |-> IF basic THEN SubSeq(s, next, basicTo - 1) ELSE <<>>,
              g3 |-> SubSeq(s, typeAt, typeTo - 1),
              g4 |-> SubSeq(s, wordAt, wordTo - 1)]

CheckEnds(s) == [i \in 1..Len(s) |-> CheckMatch(s, i).end]

\* a replacement that keeps the save type as it was written
CheckReplKeepingCase(s, i) ==
    LET m == CheckMatch(s, i)
        basicPart == IF Len(trim(m.g2)) > 0 THEN <<"|","b","a","s","i","c">> ELSE <<>>
    IN  <<"@","C","h","e","c","k","[">> \o m.g3 \o <<"|","d","c",":">> \o m.g1 \o basicPart
            \o <<"]"," ">> \o m.g4

\* `@Check[${checkType}|dc:${dc}${basicPart}] ${saveWord}`
CheckRepl(s, i) ==
    LET m == CheckMatch(s, i)
        basicPart == IF Len(trim(m.g2)) > 0 THEN <<"|","b","a","s","i","c">> ELSE <<>>
    IN  <<"@","C","h","e","c","k","[">> \o toLowerCase(m.g3) \o <<"|","d","c",":">> \o m.g1 \o basicPart
            \o <<"]"," ">> \o m.g4

\* enrichChecks on the trimmed text
enrichChecksTrimming(text) ==
    ReplaceAll(trim(text), CheckEnds(trim(text)),
               [i \in 1..Len(trim(text)) |-> CheckRepl(trim(text), i)])

\* text.replace(/DC.../gi, ...)
enrichChecks(text) ==
    ReplaceAll(text, CheckEnds(text), [i \in 1..Len(text) |-> CheckRepl(text, i)])

\* /(\d+d\d+(?:[+-]\d+)?)/ at index i: the index after the dice formula, 0
\* when no formula starts at i.  ci: under the i flag the letter d also
\* matches D.
DiceFormulaEnd(s, i, ci) ==
    LET nTo  == SkipClass(s, i, DigitChars)
        isD  == nTo <= Len(s) /\ (s[nTo] = "d" \/ (ci /\ s[nTo] = "D"))
        dTo  == SkipClass(s, nTo + 1, DigitChars)
        sign == dTo <= Len(s) /\ s[dTo] \in {"+", "-"}
        mTo  == SkipClass(s, dTo + 1, DigitChars)
    IN  IF nTo = i \/ ~isD \/ dTo = nTo + 1 THEN 0
        ELSE IF sign /\ mTo > dTo + 1 THEN mTo
        ELSE dTo

\* new RegExp(`(\\d+d\\d+(?:[+-]\\d+)?)\\s+(${typePattern})\\s+damage`, "gi")
\* The formula is matched greedily; when the rest fails after a formula
\* taken with its modifier, the expression gives the modifier back and
\* fails again, because a sign is no white space.
DamageMatch(s, i) ==
    LET fTo    == DiceFormulaEnd(s, i, TRUE)
        typeAt == SkipClass(s, fTo, SpaceChars)
        type   == FirstAltCI(s, typeAt, DAMAGE_TYPES)
        typeTo == typeAt + Len(DAMAGE_TYPES[type])
        wordAt == SkipClass(s, typeTo, SpaceChars)
    IN  IF fTo = 0 \/ typeAt = fTo THEN NoMatch
        ELSE IF type = 0 THEN NoMatch
        ELSE IF wordAt = typeTo \/ ~LitAtCI(s, wordAt, <<"d","a","m","a","g","e">>) THEN NoMatch
        ELSE [NoMatch EXCEPT !.end = wordAt + 6,
                             !.g1 = SubSeq(s, i, fTo - 1),
                             !.g2 = SubSeq(s, typeAt, typeTo - 1)]

DamageEnds(s) == [i \in 1..Len(s) |-> DamageMatch(s, i).end]

\* `@Damage[${wrapped}[${type.toLowerCase()}]] damage`
\* a replacement that parenthesises every formula
DamageReplAlwaysWrapped(s, i) ==
    LET m == DamageMatch(s, i)
    IN  <<"@","D","a","m","a","g","e","[","(">> \o m.g1 \o <<")","[">> \o toLowerCase(m.g2) \o <<"]","]"," ","d","a","m","a","g","e">>

DamageRepl(s, i) ==
    LET m == DamageMatch(s, i)
        formula == m.g1
        wrapped == IF \E k \in 1..Len(formula) : formula[k] \in {"+", "-"}
                   THEN <<"(">> \o formula \o <<")">> ELSE formula
    IN  <<"@","D","a","m","a","g","e","[">> \o wrapped \o <<"[">> \o toLowerCase(m.g2) \o <<"]","]"," ","d","a","m","a","g","e">>

enrichDamage(text) ==
    ReplaceAll(text, DamageEnds(text), [i \in 1..Len(text) |-> DamageRepl(text, i)])

\* /(\d+)-foot\s+(cone|burst|emanation|line|square)/gi
TEMPLATE_SHAPES == << <<"c","o","n","e">>, <<"b","u","r","s","t">>, <<"e","m","a","n","a","t","i","o","n">>, <<"l","i","n","e">>, <<"s","q","u","a","r","e">> >>
TemplateMatch(s, i) ==
    LET nTo     == SkipClass(s, i, DigitChars)
        shapeAt == SkipClass(s, nTo + 5, SpaceChars)
        shape   == FirstAltCI(s, shapeAt, TEMPLATE_SHAPES)
    IN  IF nTo = i \/ ~LitAtCI(s, nTo, <<"-","f","o","o","t">>) THEN NoMatch
        ELSE IF shapeAt = nTo + 5 \/ shape = 0 THEN NoMatch
        ELSE [NoMatch EXCEPT !.end = shapeAt + Len(TEMPLATE_SHAPES[shape]),
                             !.g1 = SubSeq(s, i, nTo - 1),
                             !.g2 = SubSeq(s, shapeAt,
                                      shapeAt + Len(TEMPLATE_SHAPES[shape]) - 1)]

TemplateEnds(s) == [i \in 1..Len(s) |-> TemplateMatch(s, i).end]

\* `@Template[type:${type.toLowerCase()}|distance:${distance}]`
TemplateRepl(s, i) ==
    LET m == TemplateMatch(s, i)
    IN  <<"@","T","e","m","p","l","a","t","e","[","t","y","p","e",":">> \o toLowerCase(m.g2) \o <<"|","d","i","s","t","a","n","c","e",":">> \o m.g1 \o <<"]">>

enrichTemplates(text) ==
    ReplaceAll(text, TemplateEnds(text), [i \in 1..Len(text) |-> TemplateRepl(text, i)])

\* new RegExp(`\\b(${cond})\\s+(\\d+)\\b`, "gi") at index i
ValuedMatch(s, i, cond) ==
    LET nameTo == i + Len(cond)
        numAt  == SkipClass(s, nameTo, SpaceChars)
        numTo  == SkipClass(s, numAt, DigitChars)
    IN  IF ~WordBoundary(s, i) \/ ~LitAtCI(s, i, cond) THEN NoMatch
        ELSE IF numAt = nameTo \/ numTo = numAt THEN NoMatch
        ELSE IF ~WordBoundary(s, numTo) THEN NoMatch
        ELSE [NoMatch EXCEPT !.end = numTo,
                             !.g1 = SubSeq(s, i, nameTo - 1),
                             !.g2 = SubSeq(s, numAt, numTo - 1)]

ValuedEnds(s, cond) == [i \in 1..Len(s) |-> ValuedMatch(s, i, cond).end]

\* `@UUID[Compendium.${SYSTEM_ID}.conditions.Item.${itemName}]{...}`
ConditionLink(itemName, display) ==
    <<"@","U","U","I","D","[","C","o","m","p","e","n","d","i","u","m",".">> \o SYSTEM_ID \o <<".","c","o","n","d","i","t","i","o","n","s",".","I","t","e","m",".">> \o itemName
        \o <<"]","{">> \o display \o <<"}">>

\* one turn of the loop over VALUED_CONDITIONS
ReplaceValued(text, cond) ==
    ReplaceAll(text, ValuedEnds(text, cond),
               [i \in 1..Len(text) |->
                   ConditionLink(CONDITION_ITEM_MAP[cond],
                                 capitalise(ValuedMatch(text, i, cond).g1) \o <<" ">>
                                     \o ValuedMatch(text, i, cond).g2)])

\* new RegExp(`\\b${escaped}\\b`, "gi") at index i: the index after the match
ValuelessMatchEnd(s, i, cond) ==
    IF WordBoundary(s, i) /\ LitAtCI(s, i, cond) /\ WordBoundary(s, i + Len(cond))
    THEN i + Len(cond) ELSE 0

ValuelessEnds(s, cond) == [i \in 1..Len(s) |-> ValuelessMatchEnd(s, i, cond)]

\* one turn of the loop over VALUELESS_CONDITIONS
ReplaceValueless(text, cond) ==
    ReplaceAll(text, ValuelessEnds(text, cond),
               [i \in 1..Len(text) |->
                   ConditionLink(CONDITION_ITEM_MAP[cond],
                                 SubSeq(text, i, i + Len(cond) - 1))])

\* the loops over the two lists, result being the text so far (its length is
\* read so that each turn works on a computed string)
RECURSIVE ValuedLoop(_, _)
ValuedLoop(result, k) ==
    IF Len(result) >= 0 /\ k > Len(VALUED_CONDITIONS) THEN result
    ELSE ValuedLoop(ReplaceValued(result, VALUED_CONDITIONS[k]), k + 1)

RECURSIVE ValuelessLoop(_, _)
ValuelessLoop(result, k) ==
    IF Len(result) >= 0 /\ k > Len(VALUELESS_CONDITIONS) THEN result
    ELSE ValuelessLoop(ReplaceValueless(result, VALUELESS_CONDITIONS[k]), k + 1)

enrichConditions(text) == ValuelessLoop(ValuedLoop(text, 1), 1)

\* /\n\n+/ at index i: the index after the separator, 0 when none starts at i
BlankLineEnd(s, i) ==
    IF LitAt(s, i, <<"\n","\n">>) THEN SkipClass(s, i + 2, {"\n"}) ELSE 0
BlankLineEnds(s) == [i \in 1..Len(s) |-> BlankLineEnd(s, i)]

RECURSIVE WrapEach(_)
WrapEach(blocks) ==
    IF Len(blocks) = 0 THEN <<>>
    ELSE <<<<"<","p",">">> \o trim(blocks[1]) \o <<"<","/","p",">">>>> \o WrapEach(Tail(blocks))

\* wrapParagraphs splitting on /\n+/
LineBreakEnds(s) ==
    [i \in 1..Len(s) |-> IF s[i] = "\n" THEN SkipClass(s, i + 1, {"\n"}) ELSE 0]
wrapParagraphsPerLine(text) == Join(WrapEach(Split(text, LineBreakEnds(text))), <<"\n">>)

wrapParagraphs(text) == Join(WrapEach(Split(text, BlankLineEnds(text))), <<"\n">>)

\* /\*\*(Critical Success|Success|Failure|Critical Failure)\*\*/g
DEGREE_LABELS ==
    << <<"C","r","i","t","i","c","a","l"," ","S","u","c","c","e","s","s">>, <<"S","u","c","c","e","s","s">>, <<"F","a","i","l","u","r","e">>, <<"C","r","i","t","i","c","a","l"," ","F","a","i","l","u","r","e">> >>
\* /\*\*(Trigger|Effect|Requirements|Frequency)\*\*/g
BLOCK_LABELS == << <<"T","r","i","g","g","e","r">>, <<"E","f","f","e","c","t">>, <<"R","e","q","u","i","r","e","m","e","n","t","s">>, <<"F","r","e","q","u","e","n","c","y">> >>

\* the label of labels whose bold marker starts at index i (0: none)
MarkerAt(s, i, labels) ==
    LET hit == {k \in 1..Len(labels) : LitAt(s, i, <<"*","*">> \o labels[k] \o <<"*","*">>)}
    IN  IF hit = {} THEN 0 ELSE CHOOSE k \in hit : \A m \in hit : k <= m

\* [...text.matchAll(re)]: the matches in order, each with its index (1-based
\* here), the index after it and its label
MatchAllMarkers(s, labels) ==
    LET starts == {j \in 1..Len(s) : MarkerAt(s, j, labels) > 0}
        found[i \in 1..(Len(s) + 1)] ==
            LET later == {j \in starts : j >= i}
            IN  IF later = {} THEN <<>>
                ELSE LET j == Min(later)
                         label == labels[MarkerAt(s, j, labels)]
                     IN  <<[index |-> j, after |-> j + Len(label) + 4,
                            label |-> label]>> \o found[j + Len(label) + 4]
    IN  found[1]

\* the paragraphs of the markers from the i-th on; hrBefore: the label that
\* gets "<hr />" pushed before its paragraph (<<>>: none)
RECURSIVE LabelledParts(_, _, _, _)
LabelledParts(text, matches, i, hrBefore) ==
    IF i > Len(matches) THEN <<>>
    ELSE
    LET label == matches[i].label
        contentEnd == IF i + 1 <= Len(matches) THEN matches[i + 1].index - 1
                      ELSE Len(text)
        content == trim(SubSeq(text, matches[i].after, contentEnd))
        para == <<"<","p",">","<","s","t","r","o","n","g",">">> \o label \o <<"<","/","s","t","r","o","n","g",">"," ">> \o content \o <<"<","/","p",">">>
    IN  (IF label = hrBefore THEN <<<<"<","h","r"," ","/",">">>>> ELSE <<>>)
            \o <<para>> \o LabelledParts(text, matches, i + 1, hrBefore)

Preamble(text, matches) ==
    LET preamble == trim(SubSeq(text, 1, matches[1].index - 1))
    IN  IF Len(preamble) > 0 THEN <<<<"<","p",">">> \o preamble \o <<"<","/","p",">">>>> ELSE <<>>

formatWithDegrees(text) ==
    LET matches == MatchAllMarkers(text, DEGREE_LABELS)
    IN  IF Len(matches) = 0 THEN wrapParagraphs(text)
        ELSE Join(Preamble(text, matches) \o <<<<"<","h","r"," ","/",">">>>>
                      \o LabelledParts(text, matches, 1, <<>>), <<"\n">>)

formatWithBlocks(text) ==
    LET matches == MatchAllMarkers(text, BLOCK_LABELS)
    IN  IF Len(matches) = 0 THEN wrapParagraphs(text)
        ELSE Join(Preamble(text, matches)
                      \o LabelledParts(text, matches, 1, <<"E","f","f","e","c","t">>), <<"\n">>)

HasMarker(text, labels) == \E i \in 1..Len(text) : MarkerAt(text, i, labels) > 0

\* a formatHtml that looks for the block markers first
formatHtmlBlocksFirst(text) ==
    IF HasMarker(text, BLOCK_LABELS) THEN formatWithBlocks(text)
    ELSE IF HasMarker(text, DEGREE_LABELS) THEN formatWithDegrees(text)
    ELSE wrapParagraphs(text)

formatHtml(text) ==
    IF HasMarker(text, DEGREE_LABELS) THEN formatWithDegrees(text)
    ELSE IF HasMarker(text, BLOCK_LABELS) THEN formatWithBlocks(text)
    ELSE wrapParagraphs(text)

\* enrichDescription line by line: the value of enriched after each inline
\* enricher, and the string returned
TraceOf(checked, damaged, templated, conditioned) ==
    [checked |-> checked, damaged |-> damaged, templated |-> templated,
     conditioned |-> conditioned, html |-> formatHtml(conditioned)]
AfterTemplates(checked, damaged, templated) ==
    TraceOf(checked, damaged, templated, enrichConditions(templated))
AfterDamage(checked, damaged) == AfterTemplates(checked, damaged, enrichTemplates(damaged))
AfterChecks(checked) == AfterDamage(checked, enrichDamage(checked))

\* enrichDescription with the conditions enriched before the checks
EnrichTraceConditionsFirst(raw) ==
    LET conditioned == enrichConditions(trim(raw))
        checked     == enrichChecks(conditioned)
        damaged     == enrichDamage(checked)
        templated   == enrichTemplates(damaged)
    IN  IF Len(trim(raw)) = 0
        THEN [checked |-> <<>>, damaged |-> <<>>, templated |-> <<>>,
              conditioned |-> <<>>, html |-> <<>>]
        ELSE [checked |-> checked, damaged |-> damaged, templated |-> templated,
              conditioned |-> conditioned, html |-> formatHtml(templated)]

\* text = raw.trim(); if (!text) return ""; then the four enrichers in turn
EnrichTrace(raw) ==
    IF Len(trim(raw)) = 0
    THEN [checked |-> <<>>, damaged |-> <<>>, templated |-> <<>>,
          conditioned |-> <<>>, html |-> <<>>]
    ELSE AfterChecks(enrichChecks(trim(raw)))

enrichDescription(raw) == EnrichTrace(raw).html

STAGES == {"checks", "damage", "templates", "conditions"}

\* one exported inline enricher, called by name
Stage(name, text) ==
    CASE name = "checks"     -> enrichChecks(text)
      [] name = "damage"     -> enrichDamage(text)
      [] name = "templates"  -> enrichTemplates(text)
      [] name = "conditions" -> enrichConditions(text)

(***************************************************************************)
(* JavaScript values, as gray-matter hands over the YAML frontmatter       *)
(***************************************************************************)
\* One record shape for every value: t is the kind, n the number (or 0/1 of
\* a boolean), s the string, items the elements of an array (k empty) or the
\* entries of an object in insertion order.
JsValue(t, n, s, items) == [t |-> t, n |-> n, s |-> s, items |-> items]
Undefined == JsValue("undefined", 0, <<>>, <<>>)
Null      == JsValue("null", 0, <<>>, <<>>)
NaN       == JsValue("NaN", 0, <<>>, <<>>)
JsNum(n)  == JsValue("number", n, <<>>, <<>>)
JsStr(s)  == JsValue("string", 0, s, <<>>)
JsBool(b) == JsValue("boolean", IF b THEN 1 ELSE 0, <<>>, <<>>)
JsArr(elems) ==
    JsValue("array", 0, <<>>, [i \in 1..Len(elems) |-> [k |-> <<>>, v |-> elems[i]]])
JsObj(entries) == JsValue("object", 0, <<>>, entries)

\* x == null
IsNullish(x) == x.t \in {"undefined", "null"}
\* x ?? d
Coalesce(x, d) == IF IsNullish(x) THEN d ELSE x
\* the truthiness of x
Truthy(x) ==
    ~ \/ IsNullish(x)
      \/ x.t = "NaN"
      \/ x.t \in {"number", "boolean"} /\ x.n = 0
      \/ x.t = "string" /\ Len(x.s) = 0
\* x && typeof x === "object"
IsObjectLike(x) == Truthy(x) /\ x.t \in {"object", "array"}
IsArray(x) == x.t = "array"

RECURSIVE NatToStr(_)
NatToStr(n) ==
    IF n < 10 THEN <<DigitSeq[n + 1]>>
    ELSE NatToStr(n \div 10) \o <<DigitSeq[(n % 10) + 1]>>
IntToStr(n) == IF n < 0 THEN <<"-">> \o NatToStr(-n) ELSE NatToStr(n)

DigitVal(c) == (CHOOSE i \in 1..Len(DigitSeq) : DigitSeq[i] = c) - 1
RECURSIVE StrToNat(_)
StrToNat(digits) ==
    IF Len(digits) = 0 THEN 0
    ELSE 10 * StrToNat(SubSeq(digits, 1, Len(digits) - 1))
            + DigitVal(digits[Len(digits)])

\* Number(string): white space is trimmed, the empty string is 0, an
\* optionally signed run of digits is its value and anything else is NaN.
\* (Decimal points, exponents, hex and Infinity are outside the characters
\* the model's inputs are written in.)
StringToNumber(s) ==
    LET t      == trim(s)
        signed == Len(t) > 0 /\ t[1] \in {"+", "-"}
        digits == IF signed THEN Tail(t) ELSE t
    IN  IF Len(t) = 0 THEN JsNum(0)
        ELSE IF Len(digits) > 0 /\ \A i \in 1..Len(digits) : digits[i] \in DigitChars
             THEN JsNum(IF signed /\ t[1] = "-" THEN -StrToNat(digits)
                        ELSE StrToNat(digits))
        ELSE NaN

\* String(x)
RECURSIVE JsString(_)
JsString(x) ==
    CASE x.t = "undefined" -> <<"u","n","d","e","f","i","n","e","d">>
      [] x.t = "null"      -> <<"n","u","l","l">>
      [] x.t = "NaN"       -> <<"N","a","N">>
      [] x.t = "number"    -> IntToStr(x.n)
      [] x.t = "boolean"   -> IF x.n = 1 THEN <<"t","r","u","e">> ELSE <<"f","a","l","s","e">>
      [] x.t = "string"    -> x.s
      [] x.t = "array"     ->
            Join([i \in 1..Len(x.items) |->
                    IF IsNullish(x.items[i].v) THEN <<>>
                    ELSE JsString(x.items[i].v)], <<",">>)
      [] x.t = "object"    -> <<"[","o","b","j","e","c","t"," ","O","b","j","e","c","t","]">>

\* Number(x)
JsNumber(x) ==
    CASE x.t = "undefined" -> NaN
      [] x.t = "null"      -> JsNum(0)
      [] x.t = "NaN"       -> NaN
      [] x.t = "number"    -> x
      [] x.t = "boolean"   -> JsNum(x.n)
      [] x.t = "string"    -> StringToNumber(x.s)
      [] x.t = "array"     -> StringToNumber(JsString(x))
      [] x.t = "object"    -> NaN

\* obj[key] of a value that is not null or undefined: the own property, or
\* undefined (numbers, strings and arrays have none of the names read here)
Get(obj, key) ==
    LET hit == {i \in 1..Len(obj.items) : obj.items[i].k = key}
    IN  IF obj.t = "object" /\ hit # {} THEN obj.items[Min(hit)].v
        ELSE Undefined

\* Object.entries(x) of an object or an array
ObjectEntries(x) ==
    IF x.t = "object" THEN x.items
    ELSE IF x.t = "array"
    THEN [i \in 1..Len(x.items) |-> [k |-> IntToStr(i - 1), v |-> x.items[i].v]]
    ELSE <<>>

\* for (const entry of raw) if (entry && typeof entry === "object")
\*     for (const [key, val] of Object.entries(entry)): the [key, val] pairs
\* in the order the two loops visit them
RECURSIVE EntriesOfArray(_, _)
EntriesOfArray(raw, i) ==
    IF i > Len(raw.items) THEN <<>>
    ELSE (IF IsObjectLike(raw.items[i].v) THEN ObjectEntries(raw.items[i].v)
          ELSE <<>>) \o EntriesOfArray(raw, i + 1)

(***************************************************************************)
(* Primitive parsers (bestiary-parse.ts)                                   *)
(***************************************************************************)
\* /\s+plus\s+/i at index i: the index after the separator, 0 when none
\* starts at i
PlusSepEnd(s, i) ==
    LET wordAt == SkipClass(s, i, SpaceChars)
        restAt == SkipClass(s, wordAt + 4, SpaceChars)
    IN  IF wordAt > i /\ LitAtCI(s, wordAt, <<"p","l","u","s">>) /\ restAt > wordAt + 4
        THEN restAt ELSE 0

PlusSepEnds(s) == [i \in 1..Len(s) |-> PlusSepEnd(s, i)]

\* one clause of parseDamageString, trimmed: kind "damage" with its formula
\* and type, or kind "effect" with the clause as its text
DamageClause(trimmed) ==
    LET \* /^(\d+d\d+(?:[+-]\d+)?)\s+(.+)$/
        fTo    == DiceFormulaEnd(trimmed, 1, FALSE)
        restAt == SkipClass(trimmed, fTo, SpaceChars)
        rest   == SubSeq(trimmed, restAt, Len(trimmed))
        match  == /\ fTo > 0
                  /\ restAt > fTo
                  /\ Len(rest) > 0
                  /\ \A k \in 1..Len(rest) : rest[k] # "\n"
        \* /^\d+d\d+/
        dTo    == SkipClass(trimmed, 1, DigitChars)
        bare   == /\ dTo > 1
                  /\ LitAt(trimmed, dTo, <<"d">>)
                  /\ SkipClass(trimmed, dTo + 1, DigitChars) > dTo + 1
    IN  IF match
        THEN [kind |-> "damage", formula |-> SubSeq(trimmed, 1, fTo - 1),
              type |-> toLowerCase(trim(rest)), text |-> <<>>]
        ELSE IF bare
        THEN [kind |-> "damage", formula |-> trimmed, type |-> <<"u","n","t","y","p","e","d">>,
              text |-> <<>>]
        ELSE [kind |-> "effect", formula |-> <<>>, type |-> <<>>,
              text |-> trimmed]

\* a parser that keeps the dice clauses and loses the others
PushClauseDamageOnly(acc, c) ==
    IF c.kind = "damage"
    THEN [acc EXCEPT !.damage = Append(@, [formula |-> c.formula, type |-> c.type])]
    ELSE acc

\* damage.push({formula, type}) or effects.push(trimmed)
PushClause(acc, c) ==
    IF c.kind = "damage"
    THEN [acc EXCEPT !.damage = Append(@, [formula |-> c.formula, type |-> c.type])]
    ELSE [acc EXCEPT !.effects = Append(@, c.text)]

RECURSIVE DamageLoop(_, _, _)
DamageLoop(parts, i, acc) ==
    IF i > Len(parts) THEN acc
    ELSE DamageLoop(parts, i + 1, PushClause(acc, DamageClause(trim(parts[i]))))

parseDamageString(raw) ==
    LET str == trim(raw)
    IN  IF Len(str) = 0 THEN [damage |-> <<>>, effects |-> <<>>]
        ELSE DamageLoop(Split(str, PlusSepEnds(str)), 1,
                        [damage |-> <<>>, effects |-> <<>>])

\* /,\s*/, the separator of senses, speeds and attack traits, at each index
CommaSepEnds(s) ==
    [i \in 1..Len(s) |-> IF s[i] = "," THEN SkipClass(s, i + 1, SpaceChars) ELSE 0]

\* .replace(/[^a-z0-9-]+/g, "-"): each run of other characters becomes one
\* hyphen; a hyphen of the input is kept as it is
RECURSIVE HyphenateRuns(_, _)
HyphenateRuns(s, i) ==
    IF i > Len(s) THEN <<>>
    ELSE IF s[i] \in LowerChars \cup DigitChars \cup {"-"}
    THEN <<s[i]>> \o HyphenateRuns(s, i + 1)
    ELSE IF i > 1 /\ s[i - 1] \notin LowerChars \cup DigitChars \cup {"-"}
    THEN HyphenateRuns(s, i + 1)
    ELSE <<"-">> \o HyphenateRuns(s, i + 1)

\* .replace(/^-|-$/g, ""): one hyphen less at the start, then one less at
\* the end of what is left
StripEdgeHyphens(s) ==
    LET a == IF Len(s) > 0 /\ s[1] = "-" THEN Tail(s) ELSE s
    IN  IF Len(a) > 0 /\ a[Len(a)] = "-" THEN SubSeq(a, 1, Len(a) - 1) ELSE a

slugify(name) == StripEdgeHyphens(HyphenateRuns(toLowerCase(name), 1))

ACUITIES == << <<"p","r","e","c","i","s","e">>, <<"i","m","p","r","e","c","i","s","e">>, <<"v","a","g","u","e">> >>
FEET_UNITS == {<<"f","e","e","t">>, <<"f","t",".">>, <<"f","t">>}

\* \s*(?:\((precise|imprecise|vague)\))?\s*(?:(\d+)\s*(?:feet|ft\.?))?$ under
\* the i flag, on str from index i: whether it matches, and its groups
SenseTail(str, i) ==
    LET aAt  == SkipClass(str, i, SpaceChars)
        acu  == IF LitAt(str, aAt, <<"(">>) THEN FirstAltCI(str, aAt + 1, ACUITIES) ELSE 0
        has  == acu > 0 /\ LitAt(str, aAt + 1 + Len(ACUITIES[acu]), <<")">>)
        aTo  == IF has THEN aAt + Len(ACUITIES[acu]) + 2 ELSE aAt
        rAt  == SkipClass(str, aTo, SpaceChars)
        dTo  == SkipClass(str, rAt, DigitChars)
        uAt  == SkipClass(str, dTo, SpaceChars)
        feet == dTo > rAt /\ toLowerCase(SubSeq(str, uAt, Len(str))) \in FEET_UNITS
    IN  [ok      |-> rAt > Len(str) \/ feet,
         acuity  |-> IF has THEN JsStr(toLowerCase(SubSeq(str, aAt + 1, aTo - 2))) ELSE Undefined,
         range   |-> IF feet THEN JsNum(StrToNat(SubSeq(str, rAt, dTo - 1))) ELSE Undefined]

\* the sense whose type is the first p characters of str
SenseAt(str, p) ==
    [type   |-> slugify(trim(SubSeq(str, 1, p))),
     acuity |-> SenseTail(str, p + 1).acuity,
     range  |-> SenseTail(str, p + 1).range]

\* a parser that takes the whole sense for its type
parseSingleSenseGreedy(raw) ==
    [type |-> slugify(trim(raw)), acuity |-> Undefined, range |-> Undefined]

\* /^(.+?)...$/i takes for the type the shortest start of str after which
\* the rest matches; without a match the whole of str is the type
parseSingleSense(raw) ==
    LET str  == trim(raw)
        cuts == {p \in 1..Len(str) :
                    /\ SenseTail(str, p + 1).ok
                    /\ \A k \in 1..p : str[k] # "\n"}
    IN  IF cuts = {} THEN [type |-> slugify(str), acuity |-> Undefined, range |-> Undefined]
        ELSE SenseAt(str, Min(cuts))

\* one element of a senses array: the senses flatMap gets for it
SenseOfItem(item) ==
    IF item.t = "string" THEN <<parseSingleSense(item.s)>>
    ELSE IF IsObjectLike(item)
    THEN <<[type   |-> JsString(Coalesce(Get(item, <<"t","y","p","e">>), JsStr(<<>>))),
            acuity |-> IF Truthy(Get(item, <<"a","c","u","i","t","y">>))
                       THEN JsStr(JsString(Get(item, <<"a","c","u","i","t","y">>))) ELSE Undefined,
            range  |-> IF IsNullish(Get(item, <<"r","a","n","g","e">>)) THEN Undefined
                       ELSE JsNumber(Get(item, <<"r","a","n","g","e">>))]>>
    ELSE <<>>

parseSensesString(raw) ==
    IF IsNullish(raw) THEN <<>>
    ELSE IF IsArray(raw)
    THEN Concat([i \in 1..Len(raw.items) |-> SenseOfItem(raw.items[i].v)])
    ELSE IF Len(trim(JsString(raw))) = 0 THEN <<>>
    ELSE [k \in 1..Len(Split(trim(JsString(raw)), CommaSepEnds(trim(JsString(raw))))) |->
              parseSingleSense(Split(trim(JsString(raw)), CommaSepEnds(trim(JsString(raw))))[k])]

SPEED_KINDS == <<<<"f","l","y">>, <<"s","w","i","m">>, <<"c","l","i","m","b">>, <<"b","u","r","r","o","w">>>>

\* the speed record, with undefined for a field that is not set
SpeedWith(land) ==
    [k \in {<<"l","a","n","d">>, <<"f","l","y">>, <<"s","w","i","m">>, <<"c","l","i","m","b">>, <<"b","u","r","r","o","w">>, <<"n","o","t","e">>} |->
        IF k = <<"l","a","n","d">> THEN land ELSE Undefined]

\* /(\d+)\s*(?:feet|ft\.?)?$/ on t from index i: Number of the digits, or
\* undefined when it does not match
FeetAt(t, i) ==
    IF /\ SkipClass(t, i, DigitChars) > i
       /\ \/ SkipClass(t, SkipClass(t, i, DigitChars), SpaceChars) > Len(t)
          \/ SubSeq(t, SkipClass(t, SkipClass(t, i, DigitChars), SpaceChars), Len(t)) \in FEET_UNITS
    THEN JsNum(StrToNat(SubSeq(t, i, SkipClass(t, i, DigitChars) - 1)))
    ELSE Undefined

\* the index of the number of a clause "<kind> <n> ..." that opens with the
\* k-th kind and white space (0: the clause does not open so)
KindNumberAt(trimmed, k) ==
    IF k > 0 /\ SkipClass(trimmed, Len(SPEED_KINDS[k]) + 1, SpaceChars) > Len(SPEED_KINDS[k]) + 1
    THEN SkipClass(trimmed, Len(SPEED_KINDS[k]) + 1, SpaceChars) ELSE 0

\* a parser that keeps the first bare number as the land speed
SetSpeedFirstLand(speed, trimmed) ==
    IF /\ KindNumberAt(trimmed, FirstAlt(trimmed, 1, SPEED_KINDS)) > 0
       /\ FeetAt(trimmed, KindNumberAt(trimmed, FirstAlt(trimmed, 1, SPEED_KINDS))) # Undefined
    THEN [speed EXCEPT ![SPEED_KINDS[FirstAlt(trimmed, 1, SPEED_KINDS)]] =
              FeetAt(trimmed, KindNumberAt(trimmed, FirstAlt(trimmed, 1, SPEED_KINDS)))]
    ELSE IF FeetAt(trimmed, 1) # Undefined /\ speed[<<"l","a","n","d">>] = JsNum(0)
    THEN [speed EXCEPT ![<<"l","a","n","d">>] = FeetAt(trimmed, 1)]
    ELSE speed

\* one turn of the loop of parseSpeedString over the parts, on the part
\* trimmed and lowercased
SetSpeed(speed, trimmed) ==
    IF /\ KindNumberAt(trimmed, FirstAlt(trimmed, 1, SPEED_KINDS)) > 0
       /\ FeetAt(trimmed, KindNumberAt(trimmed, FirstAlt(trimmed, 1, SPEED_KINDS))) # Undefined
    THEN [speed EXCEPT ![SPEED_KINDS[FirstAlt(trimmed, 1, SPEED_KINDS)]] =
              FeetAt(trimmed, KindNumberAt(trimmed, FirstAlt(trimmed, 1, SPEED_KINDS)))]
    ELSE IF FeetAt(trimmed, 1) # Undefined
    THEN [speed EXCEPT ![<<"l","a","n","d">>] = FeetAt(trimmed, 1)]
    ELSE speed

RECURSIVE SpeedLoop(_, _, _)
SpeedLoop(parts, i, speed) ==
    IF i > Len(parts) THEN speed
    ELSE SpeedLoop(parts, i + 1, SetSpeed(speed, toLowerCase(trim(parts[i]))))

\* the legacy format {land: 25, fly: 60}
SpeedOfObject(obj) ==
    [k \in DOMAIN SpeedWith(Undefined) |->
        IF k = <<"l","a","n","d">> THEN JsNumber(Coalesce(Get(obj, k), JsNum(0)))
        ELSE IF k = <<"n","o","t","e">>
        THEN (IF Truthy(Get(obj, k)) THEN JsStr(JsString(Get(obj, k))) ELSE Undefined)
        ELSE IF IsNullish(Get(obj, k)) THEN Undefined
        ELSE JsNumber(Get(obj, k))]

parseSpeedString(raw) ==
    IF raw.t \in {"number", "NaN"} THEN SpeedWith(raw)
    ELSE IF raw.t = "object" THEN SpeedOfObject(raw)
    ELSE IF Len(trim(JsString(Coalesce(raw, JsStr(<<"0">>))))) = 0 THEN SpeedWith(JsNum(0))
    ELSE SpeedLoop(Split(trim(JsString(Coalesce(raw, JsStr(<<"0">>)))),
                         CommaSepEnds(trim(JsString(Coalesce(raw, JsStr(<<"0">>)))))),
                   1, SpeedWith(JsNum(0)))

AREA_SHAPES == <<<<"b","u","r","s","t">>, <<"c","o","n","e">>, <<"l","i","n","e">>, <<"e","m","a","n","a","t","i","o","n">>>>

\* the index after word and the white space after it, when t has both at
\* index i (0: it has not)
AfterWord(t, i, word) ==
    IF i > 0 /\ LitAt(t, i, word) /\ SkipClass(t, i + Len(word), SpaceChars) > i + Len(word)
    THEN SkipClass(t, i + Len(word), SpaceChars) ELSE 0

\* /^(burst|cone|line|emanation)\s+(\d+)\s*(?:ft\.?|feet)?$/: the value, or
\* undefined without a match
AreaValue(lower) ==
    IF FirstAlt(lower, 1, AREA_SHAPES) = 0 THEN Undefined
    ELSE IF AfterWord(lower, 1, AREA_SHAPES[FirstAlt(lower, 1, AREA_SHAPES)]) = 0 THEN Undefined
    ELSE FeetAt(lower, AfterWord(lower, 1, AREA_SHAPES[FirstAlt(lower, 1, AREA_SHAPES)]))

\* /^range\s+(?:increment\s+)?(\d+)\s*(?:ft\.?|feet)?$/: the number, or
\* undefined without a match
RangeValue(lower) ==
    IF AfterWord(lower, 1, <<"r","a","n","g","e">>) = 0 THEN Undefined
    ELSE IF AfterWord(lower, AfterWord(lower, 1, <<"r","a","n","g","e">>), <<"i","n","c","r","e","m","e","n","t">>) > 0
    THEN FeetAt(lower, AfterWord(lower, AfterWord(lower, 1, <<"r","a","n","g","e">>), <<"i","n","c","r","e","m","e","n","t">>))
    ELSE FeetAt(lower, AfterWord(lower, 1, <<"r","a","n","g","e">>))

\* a parser that reads the area and also keeps its token as a trait
DescTokenKeepingArea(acc, lower) ==
    IF AreaValue(lower) # Undefined
    THEN [acc EXCEPT !.traits = Append(@, lower),
                     !.area = JsObj(<<[k |-> <<"t","y","p","e">>, v |-> JsStr(AREA_SHAPES[FirstAlt(lower, 1, AREA_SHAPES)])],
                                      [k |-> <<"v","a","l","u","e">>, v |-> AreaValue(lower)]>>)]
    ELSE [acc EXCEPT !.traits = Append(@, lower)]

\* one turn of the loop of parseAttackDesc over the parts, on the part
\* trimmed and lowercased
DescToken(acc, lower) ==
    IF lower \in {<<"a","r","e","a","-","f","i","r","e">>, <<"a","u","t","o","-","f","i","r","e">>} THEN [acc EXCEPT !.action = JsStr(lower)]
    ELSE IF AreaValue(lower) # Undefined
    THEN [acc EXCEPT !.area = JsObj(<<[k |-> <<"t","y","p","e">>, v |-> JsStr(AREA_SHAPES[FirstAlt(lower, 1, AREA_SHAPES)])],
                                      [k |-> <<"v","a","l","u","e">>, v |-> AreaValue(lower)]>>)]
    ELSE IF RangeValue(lower) # Undefined
    THEN [acc EXCEPT !.range = JsObj(<<[k |-> IF \E j \in 1..Len(lower) : LitAt(lower, j, <<"i","n","c","r","e","m","e","n","t">>)
                                                 THEN <<"i","n","c","r","e","m","e","n","t">> ELSE <<"m","a","x">>,
                                           v |-> RangeValue(lower)]>>)]
    ELSE [acc EXCEPT !.traits = Append(@, lower)]

RECURSIVE DescLoop(_, _, _)
DescLoop(parts, i, acc) ==
    IF i > Len(parts) THEN acc
    ELSE DescLoop(parts, i + 1, DescToken(acc, toLowerCase(trim(parts[i]))))

\* str.replace(/^\(/, "").replace(/\)$/, "").trim()
StripParens(str) ==
    trim(SubSeq(str, IF LitAt(str, 1, <<"(">>) THEN 2 ELSE 1,
                     IF Len(str) > 0 /\ str[Len(str)] = ")"
                     THEN Len(str) - 1 ELSE Len(str)))

parseAttackDesc(raw) ==
    IF Len(StripParens(trim(raw))) = 0
    THEN [traits |-> <<>>, action |-> Undefined, area |-> Undefined, range |-> Undefined]
    ELSE DescLoop(Split(StripParens(trim(raw)), CommaSepEnds(StripParens(trim(raw)))), 1,
                  [traits |-> <<>>, action |-> Undefined, area |-> Undefined, range |-> Undefined])

(***************************************************************************)
(* Statblock normaliser (bestiary-parse.ts)                                *)
(***************************************************************************)
ABILITY_KEYS == << <<"s","t","r">>, <<"d","e","x">>, <<"c","o","n">>, <<"i","n","t">>, <<"w","i","s">>, <<"c","h","a">> >>

\* { str: 0, dex: 0, con: 0, int: 0, wis: 0, cha: 0 }
ZeroAbilities == [k \in {ABILITY_KEYS[i] : i \in 1..Len(ABILITY_KEYS)} |-> JsNum(0)]

\* const k = key.toLowerCase(); if (k in result) result[k] = Number(val ?? 0)
SetAbility(result, k, val) ==
    IF k \in DOMAIN result
    THEN [result EXCEPT ![k] = JsNumber(Coalesce(val, JsNum(0)))]
    ELSE result

RECURSIVE AttributesFromEntries(_, _, _)
AttributesFromEntries(result, entries, i) ==
    IF i > Len(entries) THEN result
    ELSE AttributesFromEntries(
            SetAbility(result, toLowerCase(entries[i].k), entries[i].v),
            entries, i + 1)

normaliseAttributes(raw) ==
    IF IsArray(raw)
    THEN AttributesFromEntries(ZeroAbilities, EntriesOfArray(raw, 1), 1)
    ELSE IF IsObjectLike(raw)
    THEN [k \in DOMAIN ZeroAbilities |->
            IF IsNullish(Get(raw, k)) THEN JsNum(0) ELSE JsNumber(Get(raw, k))]
    ELSE ZeroAbilities

\* { fort: 0, ref: 0, will: 0 }; note is undefined while it is not set
ZeroSaves == [fort |-> JsNum(0), ref |-> JsNum(0), will |-> JsNum(0), note |-> Undefined]

\* the if / else if chain on k = key.toLowerCase()
SetSave(result, k, val) ==
    IF k = <<"f","o","r","t">> \/ k = <<"f","o","r","t","i","t","u","d","e">>
    THEN [result EXCEPT !.fort = JsNumber(Coalesce(val, JsNum(0)))]
    ELSE IF k = <<"r","e","f">> \/ k = <<"r","e","f","l","e","x">>
    THEN [result EXCEPT !.ref = JsNumber(Coalesce(val, JsNum(0)))]
    ELSE IF k = <<"w","i","l","l">>
    THEN [result EXCEPT !.will = JsNumber(Coalesce(val, JsNum(0)))]
    ELSE IF k = <<"n","o","t","e">>
    THEN [result EXCEPT !.note = JsStr(JsString(val))]
    ELSE result

RECURSIVE SavesFromEntries(_, _, _)
SavesFromEntries(result, entries, i) ==
    IF i > Len(entries) THEN result
    ELSE SavesFromEntries(SetSave(result, toLowerCase(entries[i].k), entries[i].v),
                          entries, i + 1)

normaliseSaves(raw) ==
    IF IsArray(raw)
    THEN SavesFromEntries(ZeroSaves, EntriesOfArray(raw, 1), 1)
    ELSE IF IsObjectLike(raw)
    THEN [fort |-> JsNumber(Coalesce(Get(raw, <<"f","o","r","t">>), JsNum(0))),
          ref  |-> JsNumber(Coalesce(Get(raw, <<"r","e","f">>), JsNum(0))),
          will |-> JsNumber(Coalesce(Get(raw, <<"w","i","l","l">>), JsNum(0))),
          note |-> IF Truthy(Get(raw, <<"n","o","t","e">>))
                   THEN JsStr(JsString(Get(raw, <<"n","o","t","e">>))) ELSE Undefined]
    ELSE ZeroSaves

\* name.match(/^(.+?)\s+Lore$/i): ok and the first group
LoreSuffixMatch(name) ==
    LET n      == Len(name)
        wsAt   == SkipClassBack(name, n - 4, SpaceChars) + 1
        \* the lazy group takes at least one character
        groupTo == IF wsAt > 1 THEN wsAt - 1 ELSE 1
        group  == SubSeq(name, 1, groupTo)
    IN  IF /\ n >= 6
           /\ LitAtCI(name, n - 3, <<"l","o","r","e">>)
           /\ groupTo <= n - 5
           /\ \A k \in 1..Len(group) : group[k] # "\n"
        THEN [ok |-> TRUE, group |-> group]
        ELSE [ok |-> FALSE, group |-> <<>>]

\* name.match(/^Lore:\s*(.+)$/i): ok and the first group
LorePrefixMatch(name) ==
    LET n       == Len(name)
        restAt  == SkipClass(name, 6, SpaceChars)
        \* when only white space follows, \s* gives its last character back
        groupAt == IF restAt <= n THEN restAt ELSE n
        group   == SubSeq(name, groupAt, n)
    IN  IF /\ n >= 6
           /\ LitAtCI(name, 1, <<"l","o","r","e",":">>)
           /\ \A k \in 1..Len(group) : group[k] # "\n"
        THEN [ok |-> TRUE, group |-> group]
        ELSE [ok |-> FALSE, group |-> <<>>]

\* skills[key] = mod on an object kept as its entries in insertion order
SetEntry(entries, key, value) ==
    IF \E i \in 1..Len(entries) : entries[i].k = key
    THEN [i \in 1..Len(entries) |->
            IF entries[i].k = key THEN [k |-> key, v |-> value] ELSE entries[i]]
    ELSE Append(entries, [k |-> key, v |-> value])

\* name.match(/^(.+?)\s+Lore$/i) || name.match(/^Lore:\s*(.+)$/i)
LoreMatch(name) ==
    IF LoreSuffixMatch(name).ok THEN LoreSuffixMatch(name) ELSE LorePrefixMatch(name)

\* lore.push({name: `${loreMatch[1].trim()} Lore`, mod}) or
\* skills[name.toLowerCase()] = mod
AddSkill(result, name, mod) ==
    IF LoreMatch(name).ok
    THEN [result EXCEPT !.lore =
            Append(@, [name |-> trim(LoreMatch(name).group) \o <<" ","L","o","r","e">>,
                       mod |-> mod])]
    ELSE [result EXCEPT !.skills = SetEntry(@, toLowerCase(name), mod)]

RECURSIVE SkillsFromEntries(_, _, _)
SkillsFromEntries(result, entries, i) ==
    IF i > Len(entries) THEN result
    ELSE SkillsFromEntries(
            AddSkill(result, trim(entries[i].k),
                     JsNumber(Coalesce(entries[i].v, JsNum(0)))),
            entries, i + 1)

RECURSIVE LegacySkills(_, _, _)
LegacySkills(skills, entries, i) ==
    IF i > Len(entries) THEN skills
    ELSE LegacySkills(SetEntry(skills, toLowerCase(entries[i].k),
                               JsNumber(Coalesce(entries[i].v, JsNum(0)))),
                      entries, i + 1)

normaliseSkillsArray(raw) ==
    IF IsArray(raw)
    THEN SkillsFromEntries([skills |-> <<>>, lore |-> <<>>], EntriesOfArray(raw, 1), 1)
    ELSE IF IsObjectLike(raw)
    THEN [skills |-> LegacySkills(<<>>, ObjectEntries(raw), 1), lore |-> <<>>]
    ELSE [skills |-> <<>>, lore |-> <<>>]

\* the strike of one entry, kept here without its name and type
StrikeWith(bonus, parsedDamage, parsedDesc) ==
    [bonus |-> bonus, damage |-> parsedDamage.damage, effects |-> parsedDamage.effects,
     traits |-> parsedDesc.traits, action |-> parsedDesc.action,
     area |-> parsedDesc.area, range |-> parsedDesc.range]
StrikeOf(obj) ==
    StrikeWith(JsNumber(Coalesce(Get(obj, <<"b","o","n","u","s">>), JsNum(0))),
               parseDamageString(JsString(Coalesce(Get(obj, <<"d","a","m","a","g","e">>), JsStr(<<>>)))),
               parseAttackDesc(JsString(Coalesce(Get(obj, <<"d","e","s","c">>), JsStr(<<>>)))))

\* an element in front of the elements mapped after it
MappedBefore(elem, rest) ==
    IF rest.threw THEN rest ELSE [threw |-> FALSE, mapped |-> <<elem>> \o rest.mapped]

\* raw.map((entry) => ...) of normaliseAttacks: reading obj.name of a null
\* or undefined entry throws a TypeError
RECURSIVE AttacksFrom(_, _)
AttacksFrom(raw, i) ==
    IF i > Len(raw.items) THEN [threw |-> FALSE, mapped |-> <<>>]
    ELSE IF IsNullish(raw.items[i].v) THEN [threw |-> TRUE, mapped |-> <<>>]
    ELSE MappedBefore(StrikeOf(raw.items[i].v), AttacksFrom(raw, i + 1))

normaliseAttacks(raw) ==
    IF ~IsArray(raw) THEN [threw |-> FALSE, mapped |-> <<>>]
    ELSE AttacksFrom(raw, 1)

\* the ability of one entry, kept here by its name and desc
AbilityOf(obj) ==
    [name |-> JsString(Coalesce(Get(obj, <<"n","a","m","e">>), JsStr(<<"U","n","n","a","m","e","d">>))),
     desc |-> JsString(Coalesce(Get(obj, <<"d","e","s","c">>),
                   Coalesce(Get(obj, <<"d","e","s","c","r","i","p","t","i","o","n">>), JsStr(<<>>))))]

\* raw.map((a) => ...) of normaliseAbilityList; it throws like normaliseAttacks
RECURSIVE AbilitiesFrom(_, _)
AbilitiesFrom(raw, i) ==
    IF i > Len(raw.items) THEN [threw |-> FALSE, mapped |-> <<>>]
    ELSE IF IsNullish(raw.items[i].v) THEN [threw |-> TRUE, mapped |-> <<>>]
    ELSE MappedBefore(AbilityOf(raw.items[i].v), AbilitiesFrom(raw, i + 1))

normaliseAbilityList(raw) ==
    IF ~IsArray(raw) THEN [threw |-> FALSE, mapped |-> <<>>]
    ELSE AbilitiesFrom(raw, 1)

\* normaliseEnum with the allowed values as a list
normaliseEnum(value, allowed, fallback) ==
    IF \E k \in 1..Len(allowed) :
          allowed[k] = toLowerCase(JsString(Coalesce(value, JsStr(<<>>))))
    THEN toLowerCase(JsString(Coalesce(value, JsStr(<<>>))))
    ELSE fallback

SIZE_MAP ==
    (<<"t","i","n","y">> :> <<"t","i","n","y">>) @@ (<<"s","m","a","l","l">> :> <<"s","m">>) @@ (<<"s","m">> :> <<"s","m">>) @@
    (<<"m","e","d","i","u","m">> :> <<"m","e","d">>) @@ (<<"m","e","d">> :> <<"m","e","d">>) @@ (<<"l","a","r","g","e">> :> <<"l","g">>) @@
    (<<"l","g">> :> <<"l","g">>) @@ (<<"h","u","g","e">> :> <<"h","u","g","e">>) @@ (<<"g","a","r","g","a","n","t","u","a","n">> :> <<"g","r","g">>) @@
    (<<"g","r","g">> :> <<"g","r","g">>)

\* SIZE_MAP is an object literal: a name it does not hold is looked up in
\* Object.prototype, which has two names in lower case, constructor (the
\* function Object) and __proto__ (an object)
INHERITED ==
    (<<"c","o","n","s","t","r","u","c","t","o","r">> :> JsValue("function", 0, <<"O","b","j","e","c","t">>, <<>>)) @@
    (<<"_","_","p","r","o","t","o","_","_">> :> JsValue("object", 0, <<>>, <<>>))

\* SIZE_MAP[str] ?? "med"
SizeOf(str) ==
    IF str \in DOMAIN SIZE_MAP THEN JsStr(SIZE_MAP[str])
    ELSE IF str \in DOMAIN INHERITED THEN INHERITED[str]
    ELSE JsStr(<<"m","e","d">>)

normaliseSize(raw) == SizeOf(toLowerCase(JsString(Coalesce(raw, JsStr(<<"m","e","d","i","u","m">>)))))

\* mod: Number(modifier ?? 0), senses: parseSensesString(sensesRaw)
normalisePerception(modifier, sensesRaw) ==
    [mod |-> JsNumber(Coalesce(modifier, JsNum(0))), senses |-> parseSensesString(sensesRaw)]

\* The numeric and list field groups of the record normaliseStatblock
\* returns, from data and the values of the calls it makes; threw: one of
\* them threw a TypeError.
StatblockWith(data, sk, strikes, top, mid, bot) ==
    [threw      |-> strikes.threw \/ top.threw \/ mid.threw \/ bot.threw,
     rarity     |-> normaliseEnum(Get(data, <<"r","a","r","i","t","y">>),
                                  <<<<"c","o","m","m","o","n">>, <<"u","n","c","o","m","m","o","n">>, <<"r","a","r","e">>, <<"u","n","i","q","u","e">>>>, <<"c","o","m","m","o","n">>),
     size       |-> normaliseSize(Get(data, <<"s","i","z","e">>)),
     abilities  |-> normaliseAttributes(Get(data, <<"a","t","t","r","i","b","u","t","e","s">>)),
     perception |-> normalisePerception(Get(data, <<"m","o","d","i","f","i","e","r">>),
                                        Get(data, <<"s","e","n","s","e","s">>)),
     skills     |-> sk.skills,
     ac         |-> JsNumber(Coalesce(Get(data, <<"a","c">>), JsNum(10))),
     saves      |-> normaliseSaves(Get(data, <<"s","a","v","e","s">>)),
     hp         |-> JsNumber(Coalesce(Get(data, <<"h","p">>), JsNum(1))),
     \* normaliseSpeed(data.speed)
     speed      |-> parseSpeedString(Get(data, <<"s","p","e","e","d">>)),
     strikes    |-> strikes.mapped,
     abilities_top |-> top.mapped,
     abilities_mid |-> mid.mapped,
     abilities_bot |-> bot.mapped,
     \* lore.length > 0 ? lore : undefined
     lore       |-> sk.lore]

normaliseStatblock(data) ==
    StatblockWith(data,
        normaliseSkillsArray(Get(data, <<"s","k","i","l","l","s">>)),
        normaliseAttacks(Get(data, <<"a","t","t","a","c","k","s">>)),
        normaliseAbilityList(Get(data, <<"a","b","i","l","i","t","i","e","s","_","t","o","p">>)),
        normaliseAbilityList(Get(data, <<"a","b","i","l","i","t","i","e","s","_","m","i","d">>)),
        normaliseAbilityList(Get(data, <<"a","b","i","l","i","t","i","e","s","_","b","o","t">>)))

\* filename.replace(/\.md$/, "")
SlugOf(filename) ==
    IF LitAt(filename, Len(filename) - 2, <<".","m","d">>)
    THEN SubSeq(filename, 1, Len(filename) - 3) ELSE filename

NoStatblock == [threw |-> FALSE]

\* return { slug, statblock }, unless building statblock threw
CreatureWith(slug, statblock) ==
    IF statblock.threw
    THEN [kind |-> "TypeError", slug |-> <<>>, statblock |-> NoStatblock]
    ELSE [kind |-> "creature", slug |-> slug, statblock |-> statblock]

\* parseCreature on a file whose frontmatter gray-matter has read as data:
\* kind "null" (not a creature), "creature", or "TypeError" (it threw)
parseCreature(filename, data) ==
    IF Get(data, <<"s","t","a","t","b","l","o","c","k">>) # JsBool(TRUE)
    THEN [kind |-> "null", slug |-> <<>>, statblock |-> NoStatblock]
    ELSE CreatureWith(SlugOf(filename), normaliseStatblock(data))

(***************************************************************************)
(* State                                                                   *)
(***************************************************************************)
VARIABLES
    files,      \* the bestiary files of one converter run: [name, data]
    parsed,     \* what parseCreature returned for each file read so far
    desc,       \* an ability description handed to the enrichment pipeline
    phase,      \* "idle", "input", "stage", "described" or "restaged"
    stageName,  \* the inline enricher last called on its own ("none": none)
    stageOut,   \* what that call returned
    trace,      \* EnrichTrace(desc) once enrichDescription(desc) has run
    creature,   \* the parsed creature handed to buildActorDocument
    built,      \* the actor documents built from it, one for each run
    settings,   \* the world settings of the module
    isGM,       \* game.user.isGM on this client
    ready,      \* the ready hook has run on this client
    hooks,      \* the hooks the module has registered on this client
    dcBase,     \* _dcBase of shared/dc.ts
    pradRollInProgress,  \* _pradRollInProgress of intercept-attack.ts
    postings,   \* the postAttackCard calls in flight: [modifier, attackDC, at]
    created,    \* how many attack messages the system has tried to create
    chat,       \* the chat messages created on this client, in order
    attackModifier,  \* the attack modifier of the NPC whose strike is resolved
    ac,         \* the armor class of the character it strikes
    face,       \* the faces of the d20, 1..face, resolved so far
    saveTally,  \* NPC outcome -> on how many of them the armor save gives it
    attackTally, \* NPC outcome -> on how many of them the NPC's own roll does
    author,     \* the user who owns the chat message with the target rows
    stored,     \* flags.targetHelper.saves of the message in the world's database
    localSaves, \* client -> the same flag in that client's copy of the message
    rollsInFlight,   \* rollSavesForTargets calls awaiting their rolls: [client, targets, die]
    updatesInFlight, \* message.update requests on their way to the server
    broadcasts, \* client -> the changes the server has sent it, not yet applied
    socketInFlight,  \* the socket payloads on their way to the GM
    callsMade   \* how many rolls have started and payloads have been relayed

bestiaryVars == <<files, parsed>>
enrichVars == <<desc, phase, stageName, stageOut, trace>>
actorVars == <<creature, built>>
pradVars == <<settings, isGM, ready, hooks, dcBase, pradRollInProgress, postings, created, chat>>
degreeVars == <<attackModifier, ac, face, saveTally, attackTally>>
savesVars == <<author, stored, localSaves, rollsInFlight, updatesInFlight, broadcasts,
               socketInFlight, callsMade>>
restVars == <<actorVars, pradVars, degreeVars, savesVars>>
vars == <<bestiaryVars, enrichVars, restVars>>

DC_BASE_DEFAULT == 11
DC_BASE_STRICT == 12

\* the parts of the model that a specification leaves out, at rest
ConverterIdle ==
    /\ files = <<>>
    /\ parsed = <<>>
    /\ desc = <<>>
    /\ phase = "idle"
    /\ stageName = "none"
    /\ stageOut = <<>>
    /\ trace = [checked |-> <<>>, damaged |-> <<>>, templated |-> <<>>,
                conditioned |-> <<>>, html |-> <<>>]
ActorIdle ==
    /\ creature = <<>>
    /\ built = <<>>
PradIdle ==
    /\ settings = [enableCustomRules |-> FALSE, enableTargetHelper |-> FALSE,
                   playersRollAllDice |-> FALSE, pradStrictDCs |-> FALSE]
    /\ isGM = FALSE
    /\ ready = FALSE
    /\ hooks = {}
    /\ dcBase = DC_BASE_DEFAULT
    /\ pradRollInProgress = FALSE
    /\ postings = <<>>
    /\ created = 0
    /\ chat = <<>>
DegreeIdle ==
    /\ attackModifier = 0
    /\ ac = 0
    /\ face = 0
    /\ saveTally = <<>>
    /\ attackTally = <<>>
SavesIdle ==
    /\ author = "gm"
    /\ stored = <<>>
    /\ localSaves = <<>>
    /\ rollsInFlight = <<>>
    /\ updatesInFlight = <<>>
    /\ broadcasts = <<>>
    /\ socketInFlight = <<>>
    /\ callsMade = 0
RestIdle == ActorIdle /\ PradIdle /\ DegreeIdle /\ SavesIdle

NoTrace == [checked |-> <<>>, damaged |-> <<>>, templated |-> <<>>,
            conditioned |-> <<>>, html |-> <<>>]

(***************************************************************************)
(* Inputs of the enrichment pipeline                                       *)
(***************************************************************************)
\* The descriptions are the concatenations of at most MaxFragments of these
\* fragments of ability text.
MaxFragments == 2

FRAGMENTS ==
    << <<"D","C"," ","1","8"," ","b","a","s","i","c"," ","R","e","f","l","e","x"," ","s","a","v","e">>,
       <<"D","C"," ","5"," ","W","I","L","L"," ","s","a","v","i","n","g"," ","t","h","r","o","w">>,
       <<"2","d","6","+","3"," ","f","i","r","e"," ","d","a","m","a","g","e">>,
       <<"1","D","4"," ","A","c","i","d"," ","d","a","m","a","g","e">>,
       <<"3","0","-","f","o","o","t"," ","c","o","n","e">>,
       <<"f","r","i","g","h","t","e","n","e","d"," ","1">>,
       <<"S","T","U","N","N","E","D"," ","1","2">>,
       <<"P","r","o","n","e">>,
       <<"o","f","f","-","g","u","a","r","d">>,
       <<"*","*","S","u","c","c","e","s","s","*","*">>,
       <<"*","*","E","f","f","e","c","t","*","*">>,
       <<"i","t","\n","i","s">>,
       <<"H","i","t",".","\n","\n","M","i","s","s">>,
       <<" ">>,
       <<"\n","\n">>,
       <<"*","*","C","r","i","t","i","c","a","l"," ","F","a","i","l","u","r","e","*","*">>,
       <<"*","*","T","r","i","g","g","e","r","*","*">>,
       <<"1","d","8"," ","h","o","l","y"," ","d","a","m","a","g","e">> >>

FragmentLists == UNION {[1..n -> 1..Len(FRAGMENTS)] : n \in 0..MaxFragments}
Descriptions == {Concat([i \in DOMAIN fl |-> FRAGMENTS[fl[i]]]) : fl \in FragmentLists}

(***************************************************************************)
(* Enrichment actions                                                      *)
(***************************************************************************)
\* a caller applies one exported inline enricher to the description
ApplyStage(name) ==
    /\ phase = "input"
    /\ phase' = "stage"
    /\ stageName' = name
    /\ stageOut' = Stage(name, desc)
    /\ UNCHANGED <<desc, trace, bestiaryVars, restVars>>

\* enrichDescription(desc)
EnrichDescription ==
    /\ phase = "input"
    /\ phase' = "described"
    /\ trace' = EnrichTrace(desc)
    /\ UNCHANGED <<desc, stageName, stageOut, bestiaryVars, restVars>>

\* the string enrichDescription returned is fed through one inline enricher
\* again
ReapplyStage(name) ==
    /\ phase = "described"
    /\ phase' = "restaged"
    /\ stageName' = name
    /\ stageOut' = Stage(name, trace.html)
    /\ UNCHANGED <<desc, trace, bestiaryVars, restVars>>

EnrichInit ==
    /\ desc \in Descriptions
    /\ phase = "input"
    /\ stageName = "none"
    /\ stageOut = <<>>
    /\ trace = NoTrace
    /\ files = <<>>
    /\ parsed = <<>>
    /\ RestIdle

EnrichNext ==
    \/ \E name \in STAGES : ApplyStage(name)
    \/ EnrichDescription
    \/ \E name \in STAGES : ReapplyStage(name)

SpecEnrich == EnrichInit /\ [][EnrichNext]_vars


(***************************************************************************)
(* Inputs of the bestiary conversion                                       *)
(***************************************************************************)
\* One run of the converter reads the files of the bestiary directory; a file
\* is kept by its name and the frontmatter gray-matter reads from it.
File(name, data) == [name |-> name, data |-> data]

\* a frontmatter key with its value; a key that is absent reads as undefined
Field(key, value) == IF value = Undefined THEN <<>> ELSE <<[k |-> key, v |-> value]>>

\* frontmatter with `statblock: true`
Creature(fields) == JsObj(Field(<<"s","t","a","t","b","l","o","c","k">>, JsBool(TRUE)) \o fields)

\* the same key/value pairs as an array of single-key objects and as one
\* flat object
ArrayShape(pairs) == JsArr([i \in 1..Len(pairs) |-> JsObj(<<pairs[i]>>)])
FlatShape(pairs) == JsObj(pairs)

\* the longest list of key/value pairs in one attributes, saves or skills
\* value
MaxPairs == 2
\* the largest number of clauses in one damage string
MaxClauses == 2

\* the lists of one to MaxPairs pairs over the given keys and values, no key
\* twice
PairLists(keys, values) ==
    {p \in UNION {[1..n -> [k : keys, v : values]] : n \in 1..MaxPairs} :
        \A i, j \in 1..Len(p) : i # j => p[i].k # p[j].k}

ATTRIBUTE_NAMES == {<<"s","t","r">>, <<"S","T","R">>}
SAVE_NAMES == {<<"f","o","r","t">>, <<"F","o","r","t","i","t","u","d","e">>, <<"n","o","t","e">>}
PAIR_VALUES == {JsNum(5), JsStr(<<>>)}

\* two files that give the same attributes and saves, the first in the array
\* shape and the second in the flat shape
TwinRuns ==
    {<<File(<<"a","r","r","a","y",".","m","d">>, Creature(Field(<<"a","t","t","r","i","b","u","t","e","s">>, ArrayShape(a))
                                      \o Field(<<"s","a","v","e","s">>, ArrayShape(s)))),
       File(<<"f","l","a","t",".","m","d">>, Creature(Field(<<"a","t","t","r","i","b","u","t","e","s">>, FlatShape(a))
                                     \o Field(<<"s","a","v","e","s">>, FlatShape(s))))>> :
        a \in PairLists(ATTRIBUTE_NAMES, PAIR_VALUES),
        s \in PairLists(SAVE_NAMES, PAIR_VALUES)}

\* what a numeric field may hold
SCALARS == {Undefined, Null, JsNum(3), JsStr(<<"1","2">>), JsStr(<<"a","b","c">>), JsStr(<<>>),
            JsBool(TRUE)}

\* a creature whose top-level numeric fields hold top and whose nested ones
\* hold inner
ScalarDocs ==
    {Creature(Field(<<"a","c">>, top) \o Field(<<"h","p">>, top) \o Field(<<"m","o","d","i","f","i","e","r">>, top)
              \o Field(<<"a","t","t","r","i","b","u","t","e","s">>, JsObj(Field(<<"s","t","r">>, inner)))
              \o Field(<<"s","a","v","e","s">>, JsObj(Field(<<"f","o","r","t">>, inner) \o Field(<<"w","i","l","l">>, top)))
              \o Field(<<"a","t","t","a","c","k","s">>, JsArr(<<JsObj(Field(<<"b","o","n","u","s">>, inner))>>))) :
        top \in SCALARS, inner \in SCALARS}

\* what a list or object field may hold
SHAPES == {Undefined, Null, JsStr(<<"x">>), JsNum(3), JsObj(<<>>), JsArr(<<>>),
           JsArr(<<Null>>), JsArr(<<JsStr(<<"x">>)>>),
           JsArr(<<JsObj(Field(<<"n","a","m","e">>, JsStr(<<"B","i","t","e">>)))>>)}
LIST_FIELDS == {<<"a","t","t","r","i","b","u","t","e","s">>, <<"s","a","v","e","s">>, <<"s","k","i","l","l","s">>, <<"a","t","t","a","c","k","s">>,
                <<"a","b","i","l","i","t","i","e","s","_","t","o","p">>, <<"a","b","i","l","i","t","i","e","s","_","m","i","d">>, <<"a","b","i","l","i","t","i","e","s","_","b","o","t">>}
FLAGS == {JsBool(TRUE), JsBool(FALSE), Undefined, JsStr(<<"t","r","u","e">>)}

ShapeDocs ==
    {JsObj(Field(<<"s","t","a","t","b","l","o","c","k">>, flag) \o Field(f, shape)) :
        flag \in FLAGS, f \in LIST_FIELDS, shape \in SHAPES}

SKILL_NAMES == {<<"A","t","h","l","e","t","i","c","s">>, <<"s","t","e","a","l","t","h">>, <<"U","n","d","e","r","w","o","r","l","d"," ","L","o","r","e">>, <<"L","o","r","e",":"," ","W","a","r","f","a","r","e">>}
SKILL_VALUES == {JsNum(8), JsNum(4)}

SkillDocs ==
    {Creature(Field(<<"s","k","i","l","l","s">>, ArrayShape(p))) : p \in PairLists(SKILL_NAMES, SKILL_VALUES)}
    \cup {Creature(Field(<<"s","k","i","l","l","s">>, FlatShape(p))) : p \in PairLists(SKILL_NAMES, SKILL_VALUES)}

CLAUSES == << <<"1","d","4","+","2"," ","p","i","e","r","c","i","n","g">>, <<"2","d","6"," ","F","i","r","e">>, <<"1","d","8","-","1"," "," ","C","o","l","d"," ","I","r","o","n">>, <<"1","d","6">>,
              <<"1","d","1","0","+","4">>, <<"1","d","6","f","i","r","e">>, <<"G","r","a","b">> >>

\* the damage strings of up to MaxClauses clauses joined by the separator,
\* written " plus " or "  Plus "
DamageStrings ==
    {Join([i \in DOMAIN cl |-> CLAUSES[cl[i]]], sep) :
        cl \in UNION {[1..n -> 1..Len(CLAUSES)] : n \in 0..MaxClauses},
        sep \in {<<" ","p","l","u","s"," ">>, <<" "," ","P","l","u","s"," ">>}}

DamageDocs ==
    {Creature(Field(<<"a","t","t","a","c","k","s">>,
        JsArr(<<JsObj(Field(<<"n","a","m","e">>, JsStr(<<"M","e","l","e","e",":"," ","J","a","w","s">>)) \o Field(<<"b","o","n","u","s">>, JsNum(7))
                      \o Field(<<"d","a","m","a","g","e">>, JsStr(d)))>>))) : d \in DamageStrings}

\* the lists of up to MaxClauses of the given texts, joined by sep
ClauseStrings(texts, sep) ==
    {Join(cl, sep) : cl \in UNION {[1..n -> texts] : n \in 0..MaxClauses}}

\* senses: a type, then an acuity in brackets or none, then a range or none
SenseDocs ==
    {Creature(Field(<<"s","e","n","s","e","s">>, JsStr(str))) :
        str \in ClauseStrings(
                   {t \o a \o r : t \in {<<"L","o","w","-","L","i","g","h","t"," ","V","i","s","i","o","n">>, <<"s","c","e","n","t"," ","(","s","t","r","o","n","g",")">>, <<"e","c","h","o"," ","-"," ","l","o","c","a","t","i","o","n">>},
                                  a \in {<<>>, <<" ","(","I","m","p","r","e","c","i","s","e",")">>},
                                  r \in {<<>>, <<" ","3","0"," ","f","e","e","t">>, <<"6","0"," ","f","t",".">>}}, <<","," ">>)}
    \cup {Creature(Field(<<"s","e","n","s","e","s">>, Null))}

\* speeds: bare numbers for the land speed, clauses of a kind, and clauses
\* that are neither
SpeedDocs ==
    {Creature(Field(<<"s","p","e","e","d">>, JsStr(str))) :
        str \in ClauseStrings({<<"2","5"," ","f","e","e","t">>, <<"4","0">>, <<"F","l","y"," ","6","0"," ","f","t",".">>, <<"s","w","i","m"," ","3","0"," ","f","e","e","t">>, <<"s","w","i","m"," ","5","f","e","e","t">>,
                               <<"c","l","i","m","b"," ","f","a","s","t">>}, <<","," ">>)}
    \cup {Creature(Field(<<"s","p","e","e","d">>, v)) :
            v \in {Null, JsNum(30),
                   JsObj(Field(<<"l","a","n","d">>, JsNum(20)) \o Field(<<"f","l","y">>, JsStr(<<"4","0">>)))}}

\* attack descriptions: traits, an action, an area and ranges in brackets
DescDocs ==
    {Creature(Field(<<"a","t","t","a","c","k","s">>, JsArr(<<JsObj(Field(<<"d","e","s","c">>, JsStr(<<"(">> \o str \o <<")">>)))>>))) :
        str \in ClauseStrings({<<"F","i","n","e","s","s","e">>, <<"u","n","a","r","m","e","d">>, <<"a","r","e","a","-","f","i","r","e">>, <<"b","u","r","s","t"," ","5"," ","f","t",".">>,
                               <<"r","a","n","g","e"," ","7","0"," ","f","e","e","t">>, <<"r","a","n","g","e"," ","i","n","c","r","e","m","e","n","t"," ","3","0"," ","f","t",".">>, <<"r","e","a","c","h"," ","1","0"," ","f","e","e","t">>},
                              <<","," ">>)}

\* what the rarity and the size may hold: names in any case, names that are
\* none, values of another type
ENUM_VALUES ==
    {Undefined, Null, JsStr(<<"R","a","r","e">>), JsStr(<<"L","A","R","G","E">>), JsStr(<<"s","m">>), JsStr(<<"c","o","l","o","s","s","a","l">>),
     JsStr(<<>>), JsNum(3), JsBool(TRUE), JsArr(<<JsStr(<<"r","a","r","e">>)>>), JsObj(<<>>),
     JsStr(<<"c","o","n","s","t","r","u","c","t","o","r">>)}

EnumDocs ==
    {Creature(Field(<<"r","a","r","i","t","y">>, r) \o Field(<<"s","i","z","e">>, z)) : r \in ENUM_VALUES, z \in ENUM_VALUES}

Runs ==
    TwinRuns \cup
    {<<File(<<"c","r","e","a","t","u","r","e",".","m","d">>, d)>> : d \in ScalarDocs \cup ShapeDocs \cup SkillDocs \cup DamageDocs
                                         \cup SenseDocs \cup SpeedDocs
                                         \cup DescDocs \cup EnumDocs}

(***************************************************************************)
(* Bestiary actions                                                        *)
(***************************************************************************)
\* one turn of the loop of convertBestiary over the files: parseCreature on
\* the next file; a TypeError ends the run
ParseNextFile ==
    /\ phase = "idle"
    /\ Len(parsed) < Len(files)
    /\ \A i \in 1..Len(parsed) : parsed[i].kind # "TypeError"
    /\ parsed' = Append(parsed, parseCreature(files[Len(parsed) + 1].name,
                                              files[Len(parsed) + 1].data))
    /\ UNCHANGED <<files, enrichVars, restVars>>

BestiaryInit ==
    /\ files \in Runs
    /\ parsed = <<>>
    /\ desc = <<>>
    /\ phase = "idle"
    /\ stageName = "none"
    /\ stageOut = <<>>
    /\ trace = NoTrace
    /\ RestIdle

BestiaryNext == ParseNextFile

SpecBestiary == BestiaryInit /\ [][BestiaryNext]_vars

(***************************************************************************)
(* Properties of the statblock normaliser                                  *)
(***************************************************************************)
\* x is an array of objects of one key each
SingleKeyArray(x) ==
    /\ IsArray(x)
    /\ \A i \in 1..Len(x.items) :
          x.items[i].v.t = "object" /\ Len(x.items[i].v.items) = 1

\* a holds in the array shape the key/value pairs that b holds in the flat
\* shape
SamePairs(a, b) ==
    SingleKeyArray(a) /\ b.t = "object" /\ EntriesOfArray(a, 1) = ObjectEntries(b)

\* files i and j give the same attributes and the same saves, i in the array
\* shape and j in the flat shape
TwinFiles(i, j) ==
    /\ SamePairs(Get(files[i].data, <<"a","t","t","r","i","b","u","t","e","s">>), Get(files[j].data, <<"a","t","t","r","i","b","u","t","e","s">>))
    /\ SamePairs(Get(files[i].data, <<"s","a","v","e","s">>), Get(files[j].data, <<"s","a","v","e","s">>))

\* C1: given the same key/value pairs as an array of single-key objects and
\* as the equivalent flat object, normaliseAttributes and normaliseSaves
\* return the same ability scores and the same saves.
ShapesNormaliseAlike ==
    \A i, j \in 1..Len(parsed) :
        (TwinFiles(i, j) /\ parsed[i].kind = "creature" /\ parsed[j].kind = "creature")
            => /\ parsed[i].statblock.abilities = parsed[j].statblock.abilities
               /\ parsed[i].statblock.saves = parsed[j].statblock.saves

\* the field is absent, or a string with a letter in it
AbsentOrNonNumeric(v) ==
    \/ v = Undefined
    \/ v.t = "string" /\ \E k \in 1..Len(v.s) : v.s[k] \in LowerChars \cup UpperChars

\* C2: a numeric statblock field whose input is absent or not numeric comes
\* out as its default, 10 for AC and 0 for the modifiers.
BadNumbersGetDefaults ==
    \A i \in 1..Len(parsed) :
        parsed[i].kind = "creature" =>
            /\ AbsentOrNonNumeric(Get(files[i].data, <<"a","c">>))
                  => parsed[i].statblock.ac = JsNum(10)
            /\ AbsentOrNonNumeric(Get(files[i].data, <<"m","o","d","i","f","i","e","r">>))
                  => parsed[i].statblock.perception.mod = JsNum(0)
            /\ Get(files[i].data, <<"a","t","t","r","i","b","u","t","e","s">>).t = "object"
                  => \A k \in DOMAIN ZeroAbilities :
                        AbsentOrNonNumeric(Get(Get(files[i].data, <<"a","t","t","r","i","b","u","t","e","s">>), k))
                            => parsed[i].statblock.abilities[k] = JsNum(0)
            /\ Get(files[i].data, <<"s","a","v","e","s">>).t = "object"
                  => /\ AbsentOrNonNumeric(Get(Get(files[i].data, <<"s","a","v","e","s">>), <<"f","o","r","t">>))
                           => parsed[i].statblock.saves.fort = JsNum(0)
                     /\ AbsentOrNonNumeric(Get(Get(files[i].data, <<"s","a","v","e","s">>), <<"r","e","f">>))
                           => parsed[i].statblock.saves.ref = JsNum(0)
                     /\ AbsentOrNonNumeric(Get(Get(files[i].data, <<"s","a","v","e","s">>), <<"w","i","l","l">>))
                           => parsed[i].statblock.saves.will = JsNum(0)
            /\ \A a \in 1..Len(parsed[i].statblock.strikes) :
                  AbsentOrNonNumeric(Get(Get(files[i].data, <<"a","t","t","a","c","k","s">>).items[a].v, <<"b","o","n","u","s">>))
                      => parsed[i].statblock.strikes[a].bonus = JsNum(0)

\* C3: parseCreature returns a record for every document whose statblock flag
\* is true, whatever its other fields hold; it never throws.
StatblockNeverThrows ==
    \A i \in 1..Len(parsed) :
        Get(files[i].data, <<"s","t","a","t","b","l","o","c","k">>) = JsBool(TRUE) => parsed[i].kind = "creature"

\* the name ends in " Lore" or starts with "Lore:", whatever the case
IsLoreName(name) ==
    \/ Len(name) >= 5 /\ LitAtCI(name, Len(name) - 4, <<" ","l","o","r","e">>)
    \/ LitAtCI(name, 1, <<"l","o","r","e",":">>)
\* its subject
LoreSubject(name) ==
    IF LitAtCI(name, 1, <<"l","o","r","e",":">>) THEN trim(SubSeq(name, 6, Len(name)))
    ELSE trim(SubSeq(name, 1, Len(name) - 5))

\* the [name, value] pairs of a skills value in either shape
SkillPairs(raw) ==
    IF IsArray(raw) THEN EntriesOfArray(raw, 1)
    ELSE IF raw.t = "object" THEN ObjectEntries(raw)
    ELSE <<>>

\* C4: in either input shape a skill named "<Subject> Lore" or
\* "Lore: <Subject>" is in the lore list as {name: "<Subject> Lore", mod} and
\* not in the skill map, and every other skill is in the skill map under its
\* lowercased name (skills given with a number).
LoreSplitInBothShapes ==
    \A i \in 1..Len(parsed) :
        parsed[i].kind = "creature" =>
            \A e \in 1..Len(SkillPairs(Get(files[i].data, <<"s","k","i","l","l","s">>))) :
                LET name == SkillPairs(Get(files[i].data, <<"s","k","i","l","l","s">>))[e].k
                    mod  == SkillPairs(Get(files[i].data, <<"s","k","i","l","l","s">>))[e].v
                    sb   == parsed[i].statblock
                IN  IF mod.t # "number" THEN TRUE
                    ELSE IF IsLoreName(name)
                    THEN /\ \E l \in 1..Len(sb.lore) :
                               sb.lore[l] = [name |-> LoreSubject(name) \o <<" ","L","o","r","e">>,
                                             mod |-> mod]
                         /\ \A s \in 1..Len(sb.skills) : sb.skills[s].k # toLowerCase(name)
                    ELSE \E s \in 1..Len(sb.skills) :
                            sb.skills[s] = [k |-> toLowerCase(name), v |-> mod]

\* the roll the claim gives for a damage clause: its dice formula and the
\* lowercased, trimmed text after it ("untyped" when there is none)
DocumentedRoll(clause) ==
    LET fTo  == DiceFormulaEnd(clause, 1, FALSE)
        rest == trim(SubSeq(clause, fTo, Len(clause)))
    IN  [formula |-> SubSeq(clause, 1, fTo - 1),
         type    |-> IF Len(rest) = 0 THEN <<"u","n","t","y","p","e","d">> ELSE toLowerCase(rest)]

\* the clauses of a damage string that parseDamageString classifies as damage
DamageClausesOf(raw) ==
    LET IsDamage(part) == DamageClause(trim(part)).kind = "damage"
    IN  IF Len(trim(raw)) = 0 THEN <<>>
        ELSE SelectSeq(Split(trim(raw), PlusSepEnds(trim(raw))), IsDamage)

\* C10: for each clause classified as damage, formula is the clause's dice
\* formula and type the lowercased, trimmed text after it, or "untyped" for a
\* bare dice formula.
DamageRollsAsDocumented ==
    \A i \in 1..Len(parsed) :
        parsed[i].kind = "creature" =>
            \A a \in 1..Len(parsed[i].statblock.strikes) :
                LET given == Get(Get(files[i].data, <<"a","t","t","a","c","k","s">>).items[a].v, <<"d","a","m","a","g","e">>)
                    clauses == DamageClausesOf(JsString(Coalesce(given, JsStr(<<>>))))
                IN  /\ Len(parsed[i].statblock.strikes[a].damage) = Len(clauses)
                    /\ \A c \in 1..Len(clauses) :
                          parsed[i].statblock.strikes[a].damage[c]
                              = DocumentedRoll(trim(clauses[c]))

(***************************************************************************)
(* Properties of the enrichment pipeline                                   *)
(***************************************************************************)
\* sub occurs in s
Contains(s, sub) == \E i \in 1..(Len(s) - Len(sub) + 1) : LitAt(s, i, sub)

\* the pattern of the named inline enricher matches somewhere in s
StageMatches(name, s) ==
    CASE name = "checks"     -> HasMatch(CheckEnds(s))
      [] name = "damage"     -> HasMatch(DamageEnds(s))
      [] name = "templates"  -> HasMatch(TemplateEnds(s))
      [] name = "conditions" ->
            \/ \E k \in 1..Len(VALUED_CONDITIONS) :
                  HasMatch(ValuedEnds(s, VALUED_CONDITIONS[k]))
            \/ \E k \in 1..Len(VALUELESS_CONDITIONS) :
                  HasMatch(ValuelessEnds(s, VALUELESS_CONDITIONS[k]))

\* s holds no check, damage, template or condition pattern and no bold
\* structural marker
Plain(s) ==
    /\ \A name \in STAGES : ~StageMatches(name, s)
    /\ ~HasMarker(s, DEGREE_LABELS)
    /\ ~HasMarker(s, BLOCK_LABELS)

\* "<p>" + s + "</p>"
InParagraph(s) == <<"<","p",">">> \o s \o <<"<","/","p",">">>

\* C5: the string enrichDescription returned, fed through any one inline
\* enricher again, comes back unchanged.
StagesIdempotentOnOutput == phase = "restaged" => stageOut = trace.html

\* C6, as stated: for a text with no pattern and no marker the result of
\* enrichDescription is "<p>" + text + "</p>".
PlainTextWrappedWhole ==
    (phase = "described" /\ Plain(desc)) => trace.html = InParagraph(desc)

\* C6, amended: for a text with no pattern and no marker the result is "" when
\* the text is blank, and "<p>" + text.trim() + "</p>" when the trimmed text
\* holds no blank line.
PlainTextWrappedTrimmed ==
    (phase = "described" /\ Plain(desc)) =>
        IF Len(trim(desc)) = 0 THEN trace.html = <<>>
        ELSE ~Contains(trim(desc), <<"\n","\n">>) => trace.html = InParagraph(trim(desc))

\* a plain text with white space around it has been enriched
PlainTextTrimmedReached ==
    /\ phase = "described"
    /\ Plain(desc)
    /\ Len(trim(desc)) > 0
    /\ trim(desc) # desc
    /\ ~Contains(trim(desc), <<"\n","\n">>)
    /\ trace.html = InParagraph(trim(desc))

\* the first letter in upper case and the rest in lower case
FirstUpperRestLower(word) ==
    toUpperCase(SubSeq(word, 1, 1)) \o toLowerCase(SubSeq(word, 2, Len(word)))

\* the link of the k-th valued condition with the given display text
ValuedLink(k, display) ==
    ConditionLink(CONDITION_ITEM_MAP[VALUED_CONDITIONS[k]], display)

\* C7, as stated: each valued condition followed by a numeral comes out of
\* enrichConditions as a @UUID link whose display text is the word in the
\* casing of the input, then the numeral.
ValuedDisplayKeepsCase ==
    (phase = "stage" /\ stageName = "conditions") =>
        \A k \in 1..Len(VALUED_CONDITIONS), i \in 1..Len(desc) :
            ValuedMatch(desc, i, VALUED_CONDITIONS[k]).end > 0 =>
                Contains(stageOut,
                    ValuedLink(k, ValuedMatch(desc, i, VALUED_CONDITIONS[k]).g1 \o <<" ">>
                                      \o ValuedMatch(desc, i, VALUED_CONDITIONS[k]).g2))

\* C7, amended: the display text is the word with its first letter in upper
\* case and the rest in lower case, one space and the numeral.
ValuedDisplayCapitalised ==
    (phase = "stage" /\ stageName = "conditions") =>
        \A k \in 1..Len(VALUED_CONDITIONS), i \in 1..Len(desc) :
            ValuedMatch(desc, i, VALUED_CONDITIONS[k]).end > 0 =>
                Contains(stageOut,
                    ValuedLink(k, FirstUpperRestLower(
                                      ValuedMatch(desc, i, VALUED_CONDITIONS[k]).g1) \o <<" ">>
                                      \o ValuedMatch(desc, i, VALUED_CONDITIONS[k]).g2))

\* enrichConditions has linked a valued condition that is not written with
\* only its first letter in upper case
ValuedRecasedReached ==
    /\ phase = "stage"
    /\ stageName = "conditions"
    /\ \E k \in 1..Len(VALUED_CONDITIONS), i \in 1..Len(desc) :
          /\ ValuedMatch(desc, i, VALUED_CONDITIONS[k]).end > 0
          /\ ValuedMatch(desc, i, VALUED_CONDITIONS[k]).g1
                # FirstUpperRestLower(ValuedMatch(desc, i, VALUED_CONDITIONS[k]).g1)
          /\ Len(stageOut) > Len(desc)

\* the tokens of s that open with head, each up to the first tail after it
Tokens(s, head, tail) ==
    {SubSeq(s, i, Min({j \in i..Len(s) : LitAt(s, j, tail)} \cup {Len(s)}) + Len(tail) - 1) :
        i \in {i \in 1..Len(s) : LitAt(s, i, head)}}

\* C8: enrichDescription runs checks, damage, templates and conditions in
\* this order, each on the result of the one before, and every @Check,
\* @Damage and @Template token a stage emits is in the string returned.
StagesInOrderKeepTokens ==
    (phase = "described" /\ Len(trim(desc)) > 0) =>
        /\ trace.checked = enrichChecks(trim(desc))
        /\ trace.damaged = enrichDamage(trace.checked)
        /\ trace.templated = enrichTemplates(trace.damaged)
        /\ trace.conditioned = enrichConditions(trace.templated)
        /\ trace.html = formatHtml(trace.conditioned)
        /\ \A t \in Tokens(trace.checked, <<"@","C","h","e","c","k","[">>, <<"]">>) : Contains(trace.html, t)
        /\ \A t \in Tokens(trace.damaged, <<"@","D","a","m","a","g","e","[">>, <<"]","]">>) : Contains(trace.html, t)
        /\ \A t \in Tokens(trace.templated, <<"@","T","e","m","p","l","a","t","e","[">>, <<"]">>) : Contains(trace.html, t)

\* a description has been enriched in which a later stage rewrote text next
\* to a token of an earlier one
TokenThenLaterStageReached ==
    /\ phase = "described"
    /\ Tokens(trace.checked, <<"@","C","h","e","c","k","[">>, <<"]">>) \cup Tokens(trace.damaged, <<"@","D","a","m","a","g","e","[">>, <<"]","]">>) # {}
    /\ trace.conditioned # trace.templated

\* C9: an inline enricher returns its input unchanged, character for
\* character, when its own pattern matches nowhere in it.
UnmatchedTextUnchanged ==
    (phase = "stage" /\ ~StageMatches(stageName, desc)) => stageOut = desc

\* an enricher has been given a text with white space at an end and with
\* another enricher's pattern, but not its own
UnmatchedTextReached ==
    /\ phase = "stage"
    /\ ~StageMatches(stageName, desc)
    /\ \E name \in STAGES : StageMatches(name, desc)
    /\ trim(desc) # desc
    /\ stageOut = desc

(***************************************************************************)
(* Properties of the primitive parsers                                     *)
(***************************************************************************)
\* the trimmed clauses of a damage string, split at " plus " in any case
ClausesOf(raw) ==
    IF Len(trim(raw)) = 0 THEN <<>>
    ELSE [c \in 1..Len(Split(trim(raw), PlusSepEnds(trim(raw)))) |->
              trim(Split(trim(raw), PlusSepEnds(trim(raw)))[c])]

\* the clause starts with digits, d, digits
StartsWithDice(clause) == DiceFormulaEnd(clause, 1, FALSE) > 0
NoDice(clause) == ~StartsWithDice(clause)

\* the damage string of the a-th attack of file i, as normaliseAttacks
\* hands it to parseDamageString
DamageGiven(i, a) ==
    JsString(Coalesce(Get(Get(files[i].data, <<"a","t","t","a","c","k","s">>).items[a].v,
                          <<"d","a","m","a","g","e">>), JsStr(<<>>)))

SensesGiven(i) == Get(files[i].data, <<"s","e","n","s","e","s">>)

\* lowercase letters, digits and single hyphens, with no hyphen at either end
IsSlug(t) ==
    /\ \A k \in 1..Len(t) : t[k] \in LowerChars \cup DigitChars \cup {"-"}
    /\ \A k \in 1..(Len(t) - 1) : ~(t[k] = "-" /\ t[k + 1] = "-")
    /\ Len(t) > 0 => (t[1] # "-" /\ t[Len(t)] # "-")

\* C12: every sense type parseSensesString makes from a string is a slug:
\* lower case, only a-z, 0-9 and hyphens, one hyphen for each run of other
\* characters and none at the start or the end.
SenseTypesAreSlugs ==
    \A i \in 1..Len(parsed) :
        (parsed[i].kind = "creature" /\ SensesGiven(i).t = "string") =>
            \A k \in 1..Len(parsed[i].statblock.perception.senses) :
                IsSlug(parsed[i].statblock.perception.senses[k].type)

\* the length of the unit, feet, ft. or ft, at the end of sense (0: none)
UnitLength(sense) ==
    IF LitAtCI(sense, Len(sense) - 3, <<"f","e","e","t">>) THEN 4
    ELSE IF LitAtCI(sense, Len(sense) - 2, <<"f","t",".">>) THEN 3
    ELSE IF LitAtCI(sense, Len(sense) - 1, <<"f","t">>) THEN 2
    ELSE 0

\* the index after the part of sense in front of its range "<n> feet|ft."
\* (Len(sense) + 1 when it has no range), reading from the end
RangeStart(sense) ==
    LET dEnd   == SkipClassBack(sense, Len(sense) - UnitLength(sense), SpaceChars)
        dStart == SkipClassBack(sense, dEnd, DigitChars) + 1
    IN  IF UnitLength(sense) > 0 /\ dStart <= dEnd THEN dStart ELSE Len(sense) + 1

\* the acuity word in brackets at the end of head, in lower case (<<>>: none)
AcuityAtEnd(head) ==
    LET words == {w \in {<<"p","r","e","c","i","s","e">>, <<"i","m","p","r","e","c","i","s","e">>, <<"v","a","g","u","e">>} :
                     LitAtCI(head, Len(head) - Len(w) - 1, <<"(">> \o w \o <<")">>)}
    IN  IF words = {} THEN <<>> ELSE CHOOSE w \in words : TRUE

\* what the claim gives for one sense "<type> [(<acuity>)] [<n> feet|ft.]"
DocumentedSense(sense) ==
    LET head   == trim(SubSeq(sense, 1, RangeStart(sense) - 1))
        acuity == AcuityAtEnd(head)
        type   == IF acuity = <<>> THEN head
                  ELSE trim(SubSeq(head, 1, Len(head) - Len(acuity) - 2))
    IN  [type   |-> slugify(type),
         acuity |-> IF acuity = <<>> THEN Undefined ELSE JsStr(acuity),
         range  |-> IF RangeStart(sense) > Len(sense) THEN Undefined
                    ELSE JsNum(StrToNat(SubSeq(sense, RangeStart(sense),
                             SkipClass(sense, RangeStart(sense), DigitChars) - 1)))]

\* the senses of a string, split at its commas
SensesOf(str) ==
    IF Len(trim(str)) = 0 THEN <<>>
    ELSE [k \in 1..Len(Split(trim(str), CommaSepEnds(trim(str)))) |->
              trim(Split(trim(str), CommaSepEnds(trim(str)))[k])]

\* C13: for a comma-separated senses string parseSensesString returns one
\* entry per sense, in input order, with the slugified type, the acuity when
\* it is precise, imprecise or vague, and the range when one is given; null
\* and the empty string give an empty list.
SensesParsedAsWritten ==
    \A i \in 1..Len(parsed) :
        parsed[i].kind = "creature" =>
            /\ SensesGiven(i) = Null => parsed[i].statblock.perception.senses = <<>>
            /\ SensesGiven(i).t = "string" =>
                  parsed[i].statblock.perception.senses
                      = [k \in 1..Len(SensesOf(SensesGiven(i).s)) |->
                            DocumentedSense(SensesOf(SensesGiven(i).s)[k])]

\* a string of two senses has been parsed, one with an acuity and a range
\* and one with neither
TwoSensesReached ==
    \E i \in 1..Len(parsed) :
        /\ parsed[i].kind = "creature"
        /\ SensesGiven(i).t = "string"
        /\ Len(parsed[i].statblock.perception.senses) = 2
        /\ parsed[i].statblock.perception.senses[1].acuity = JsStr(<<"i","m","p","r","e","c","i","s","e">>)
        /\ parsed[i].statblock.perception.senses[1].range = JsNum(60)
        /\ parsed[i].statblock.perception.senses[2].acuity = Undefined
        /\ parsed[i].statblock.perception.senses[2].range = Undefined

\* the number of a clause "<n> [feet|ft.]", read from its end (undefined
\* when the clause is not written so)
DocumentedFeet(clause) ==
    LET n == trim(SubSeq(clause, 1, Len(clause) - UnitLength(clause)))
    IN  IF Len(n) > 0 /\ \A k \in 1..Len(n) : n[k] \in DigitChars
        THEN JsNum(StrToNat(n)) ELSE Undefined

\* the number of clause when it is a clause of the kind: for "land" a bare
\* "<n> [feet|ft.]", for another kind "<kind> <n> [feet|ft.]"
KindFeet(clause, kind) ==
    IF kind = <<"l","a","n","d">> THEN DocumentedFeet(clause)
    ELSE IF LitAtCI(clause, 1, kind \o <<" ">>)
    THEN DocumentedFeet(trim(SubSeq(clause, Len(kind) + 1, Len(clause))))
    ELSE Undefined

\* the speed the claim gives for a kind: the number of the last clause of
\* the kind, or none
DocumentedSpeed(clauses, kind, none) ==
    LET of == {k \in 1..Len(clauses) : KindFeet(clauses[k], kind) # Undefined}
    IN  IF of = {} THEN none
        ELSE KindFeet(clauses[CHOOSE k \in of : \A m \in of : m <= k], kind)

SpeedGiven(i) == Get(files[i].data, <<"s","p","e","e","d">>)

SpecialToken(token) ==
    \/ toLowerCase(token) \in {<<"a","r","e","a","-","f","i","r","e">>, <<"a","u","t","o","-","f","i","r","e">>}
    \/ \E word \in {<<"b","u","r","s","t">>, <<"c","o","n","e">>, <<"l","i","n","e">>, <<"e","m","a","n","a","t","i","o","n">>, <<"r","a","n","g","e">>, <<"r","a","n","g","e"," ","i","n","c","r","e","m","e","n","t">>} :
          KindFeet(token, word) # Undefined
PlainToken(token) == ~SpecialToken(token)

\* the comma-separated tokens of a description in brackets, trimmed
TokensOf(raw) ==
    IF Len(trim(raw)) <= 2 THEN <<>>
    ELSE SensesOf(SubSeq(trim(raw), 2, Len(trim(raw)) - 1))

\* the desc of the a-th attack of file i, as normaliseAttacks hands it to
\* parseAttackDesc
DescGiven(i, a) ==
    JsString(Coalesce(Get(Get(files[i].data, <<"a","t","t","a","c","k","s">>).items[a].v, <<"d","e","s","c">>), JsStr(<<>>)))

\* C15: the traits parseAttackDesc returns are the comma-separated tokens
\* that are no action-type override, area clause or range clause, lowercased
\* and trimmed, in their order.
TraitsAreThePlainTokens ==
    \A i \in 1..Len(parsed) :
        parsed[i].kind = "creature" =>
            \A a \in 1..Len(parsed[i].statblock.strikes) :
                LitAt(DescGiven(i, a), 1, <<"(">>) =>
                    parsed[i].statblock.strikes[a].traits
                        = [k \in 1..Len(SelectSeq(TokensOf(DescGiven(i, a)), PlainToken)) |->
                              toLowerCase(SelectSeq(TokensOf(DescGiven(i, a)), PlainToken)[k])]

\* a description with a trait in capitals and an area clause has been parsed
TraitBesideAreaReached ==
    \E i \in 1..Len(parsed) :
        /\ parsed[i].kind = "creature"
        /\ \E a \in 1..Len(parsed[i].statblock.strikes) :
              /\ DescGiven(i, a) = <<"(","b","u","r","s","t"," ","5"," ","f","t",".",","," ","F","i","n","e","s","s","e",")">>
              /\ parsed[i].statblock.strikes[a].traits = <<<<"f","i","n","e","s","s","e">>>>
              /\ parsed[i].statblock.strikes[a].area # Undefined

\* the value is no text whose lower case is one of names
Unrecognised(value, names) ==
    /\ value.t # "array"
    /\ value.t = "string" => toLowerCase(value.s) \notin names

\* C16: whatever the rarity and the size hold, the normalized rarity is one
\* of common, uncommon, rare, unique and the normalized size one of the six
\* size categories; a value that is not recognised gives "common" and "med".
EnumsStayInRange ==
    \A i \in 1..Len(parsed) :
        parsed[i].kind = "creature" =>
            /\ parsed[i].statblock.rarity \in {<<"c","o","m","m","o","n">>, <<"u","n","c","o","m","m","o","n">>, <<"r","a","r","e">>, <<"u","n","i","q","u","e">>}
            /\ parsed[i].statblock.size
                  \in {JsStr(z) : z \in {<<"t","i","n","y">>, <<"s","m">>, <<"m","e","d">>, <<"l","g">>, <<"h","u","g","e">>, <<"g","r","g">>}}
            /\ Unrecognised(Get(files[i].data, <<"r","a","r","i","t","y">>),
                            {<<"c","o","m","m","o","n">>, <<"u","n","c","o","m","m","o","n">>, <<"r","a","r","e">>, <<"u","n","i","q","u","e">>})
                  => parsed[i].statblock.rarity = <<"c","o","m","m","o","n">>
            /\ Unrecognised(Get(files[i].data, <<"s","i","z","e">>),
                            {<<"t","i","n","y">>, <<"s","m","a","l","l">>, <<"s","m">>, <<"m","e","d","i","u","m">>, <<"m","e","d">>, <<"l","a","r","g","e">>, <<"l","g">>,
                             <<"h","u","g","e">>, <<"g","a","r","g","a","n","t","u","a","n">>, <<"g","r","g">>})
                  => parsed[i].statblock.size = JsStr(<<"m","e","d">>)

\* the indices of s where a bold marker of one of the labels starts
MarkerStarts(s, labels) ==
    {i \in 1..Len(s) : \E l \in labels : LitAt(s, i, <<"*","*">> \o l \o <<"*","*">>)}

\* the k-th of these indices, counted from the start of s
KthMarker(s, labels, k) ==
    CHOOSE i \in MarkerStarts(s, labels) :
        Cardinality({j \in MarkerStarts(s, labels) : j < i}) = k - 1

\* the paragraph of the marker at index i: its label in <strong>, then the
\* text up to the next marker or the end, trimmed
MarkerParagraph(s, labels, i) ==
    LET label == CHOOSE l \in labels : LitAt(s, i, <<"*","*">> \o l \o <<"*","*">>)
        rest  == {j \in MarkerStarts(s, labels) : j > i}
        upTo  == IF rest = {} THEN Len(s) ELSE Min(rest) - 1
    IN  <<"<","p",">","<","s","t","r","o","n","g",">">> \o label \o <<"<","/","s","t","r","o","n","g",">"," ">>
            \o trim(SubSeq(s, i + Len(label) + 4, upTo)) \o <<"<","/","p",">">>

\* the paragraph of the text in front of the first marker, if there is any
PreambleParagraph(s, labels) ==
    IF Len(trim(SubSeq(s, 1, Min(MarkerStarts(s, labels)) - 1))) = 0 THEN <<>>
    ELSE <<InParagraph(trim(SubSeq(s, 1, Min(MarkerStarts(s, labels)) - 1)))>>

DEGREES == {<<"C","r","i","t","i","c","a","l"," ","S","u","c","c","e","s","s">>, <<"S","u","c","c","e","s","s">>, <<"F","a","i","l","u","r","e">>, <<"C","r","i","t","i","c","a","l"," ","F","a","i","l","u","r","e">>}
BLOCKS == {<<"T","r","i","g","g","e","r">>, <<"E","f","f","e","c","t">>, <<"R","e","q","u","i","r","e","m","e","n","t","s">>, <<"F","r","e","q","u","e","n","c","y">>}

\* C17: a text with a degree-of-success marker comes out as the paragraph of
\* its preamble, if it has one, one <hr />, and one labelled paragraph for
\* each marker in order, whether or not it also has Trigger/Effect markers.
DegreesLaidOutFirst ==
    (phase = "described" /\ MarkerStarts(trace.conditioned, DEGREES) # {}) =>
        trace.html = Join(PreambleParagraph(trace.conditioned, DEGREES)
                            \o <<<<"<","h","r"," ","/",">">>>>
                            \o [k \in 1..Cardinality(MarkerStarts(trace.conditioned, DEGREES)) |->
                                  MarkerParagraph(trace.conditioned, DEGREES,
                                                  KthMarker(trace.conditioned, DEGREES, k))],
                          <<"\n">>)

\* a text with a degree marker after an Effect marker has been laid out
DegreeAfterEffectReached ==
    /\ phase = "described"
    /\ MarkerStarts(trace.conditioned, DEGREES) # {}
    /\ MarkerStarts(trace.conditioned, BLOCKS) # {}
    /\ Min(MarkerStarts(trace.conditioned, BLOCKS)) < Min(MarkerStarts(trace.conditioned, DEGREES))
    /\ LitAt(trace.html, 1, <<"<","p",">","*","*","E","f","f","e","c","t","*","*","<","/","p",">">>)

\* the paragraph of the k-th block marker of s, behind an <hr /> when it is
\* an Effect paragraph that is not the first one
BlockParagraph(s, k) ==
    IF k > 1 /\ LitAt(s, KthMarker(s, BLOCKS, k), <<"*","*","E","f","f","e","c","t","*","*">>)
    THEN <<<<"<","h","r"," ","/",">">>, MarkerParagraph(s, BLOCKS, KthMarker(s, BLOCKS, k))>>
    ELSE <<MarkerParagraph(s, BLOCKS, KthMarker(s, BLOCKS, k))>>

\* C18: a text with Trigger/Effect/Requirements/Frequency markers and no
\* degree marker comes out as the paragraph of its preamble, if it has one,
\* and one labelled paragraph for each marker in order, with an <hr /> in
\* front of the Effect paragraph and none in front of the first marker's.
BlocksRuleOnlyBeforeLaterEffect ==
    (/\ phase = "described"
     /\ MarkerStarts(trace.conditioned, DEGREES) = {}
     /\ MarkerStarts(trace.conditioned, BLOCKS) # {}) =>
        trace.html = Join(PreambleParagraph(trace.conditioned, BLOCKS)
                            \o Concat([k \in 1..Cardinality(MarkerStarts(trace.conditioned, BLOCKS)) |->
                                         BlockParagraph(trace.conditioned, k)]),
                          <<"\n">>)

\* the phrase of phrases that starts at index i of s, if there is one
PhraseAt(s, phrases, i) ==
    IF \E p \in phrases : LitAt(s, i, p.text)
    THEN CHOOSE p \in phrases : LitAt(s, i, p.text)
    ELSE [text |-> <<>>, token |-> <<>>]

\* s read from index i on, each phrase met replaced by its token and every
\* other character kept
RECURSIVE RewritePhrases(_, _, _)
RewritePhrases(s, phrases, i) ==
    IF i > Len(s) THEN <<>>
    ELSE IF Len(PhraseAt(s, phrases, i).text) > 0
         THEN PhraseAt(s, phrases, i).token
                  \o RewritePhrases(s, phrases, i + Len(PhraseAt(s, phrases, i).text))
         ELSE <<s[i]>> \o RewritePhrases(s, phrases, i + 1)

\* "DC <n> [basic] <type> <save|saving throw>" beside its annotation
CHECK_PHRASES ==
    {[text  |-> <<"D","C"," ">> \o n \o <<" ">> \o (IF basic THEN <<"b","a","s","i","c"," ">> ELSE <<>>) \o type[1] \o <<" ">> \o word,
      token |-> <<"@","C","h","e","c","k","[">> \o type[2] \o <<"|","d","c",":">> \o n \o (IF basic THEN <<"|","b","a","s","i","c">> ELSE <<>>)
                    \o <<"]"," ">> \o word] :
        n \in {<<"1","8">>, <<"5">>}, basic \in BOOLEAN,
        type \in {<<<<"R","e","f","l","e","x">>, <<"r","e","f","l","e","x">>>>, <<<<"W","I","L","L">>, <<"w","i","l","l">>>>, <<<<"f","o","r","t","i","t","u","d","e">>, <<"f","o","r","t","i","t","u","d","e">>>>},
        word \in {<<"s","a","v","e">>, <<"s","a","v","i","n","g"," ","t","h","r","o","w">>}}

\* C19: enrichChecks replaces every "DC <n> [basic] <type> <save word>" by
\* "@Check[<type in lower case>|dc:<n>]", with "|basic" inside the brackets
\* exactly when the phrase had the word basic, followed by the save word as
\* it was written.
ChecksBecomeCheckTokens ==
    (phase = "stage" /\ stageName = "checks") =>
        stageOut = RewritePhrases(desc, CHECK_PHRASES, 1)

\* a basic check and a plain one, written in capitals, have been annotated
BasicAndPlainCheckReached ==
    /\ phase = "stage" /\ stageName = "checks"
    /\ Contains(desc, <<"D","C"," ","1","8"," ","b","a","s","i","c"," ","R","e","f","l","e","x"," ","s","a","v","e">>)
    /\ Contains(desc, <<"D","C"," ","5"," ","W","I","L","L"," ","s","a","v","i","n","g"," ","t","h","r","o","w">>)
    /\ Contains(stageOut, <<"@","C","h","e","c","k","[","r","e","f","l","e","x","|","d","c",":","1","8","|","b","a","s","i","c","]"," ","s","a","v","e">>)
    /\ Contains(stageOut, <<"@","C","h","e","c","k","[","w","i","l","l","|","d","c",":","5","]"," ","s","a","v","i","n","g"," ","t","h","r","o","w">>)

\* "<dice formula> <type> damage" for a recognised type beside its
\* annotation; a formula may have more digits in front
DAMAGE_PHRASES ==
    {[text  |-> digits \o dice[1] \o <<" ">> \o type[1] \o <<" ","d","a","m","a","g","e">>,
      token |-> <<"@","D","a","m","a","g","e","[">> \o (IF dice[2] THEN <<"(">> \o digits \o dice[1] \o <<")">> ELSE digits \o dice[1])
                    \o <<"[">> \o type[2] \o <<"]","]"," ","d","a","m","a","g","e">>] :
        digits \in {<<>>, <<"1">>, <<"1","2">>},
        dice \in {<<<<"2","d","6","+","3">>, TRUE>>, <<<<"1","D","4">>, FALSE>>, <<<<"1","d","8">>, FALSE>>},
        type \in {<<<<"f","i","r","e">>, <<"f","i","r","e">>>>, <<<<"A","c","i","d">>, <<"a","c","i","d">>>>}}

\* C20: enrichDamage replaces every "<dice formula> <type> damage" of a
\* recognised type by "@Damage[<formula>[<type in lower case>]] damage", the
\* formula in parentheses exactly when it has a +/- modifier, and leaves a
\* dice formula in front of any other word as it is.
DamageBecomesDamageTokens ==
    (phase = "stage" /\ stageName = "damage") =>
        stageOut = RewritePhrases(desc, DAMAGE_PHRASES, 1)

\* a formula with a modifier and one of an unrecognised type have been
\* through enrichDamage together
ModifiedAndUnknownDamageReached ==
    /\ phase = "stage" /\ stageName = "damage"
    /\ Contains(desc, <<"2","d","6","+","3"," ","f","i","r","e"," ","d","a","m","a","g","e">>)
    /\ Contains(desc, <<"1","d","8"," ","h","o","l","y"," ","d","a","m","a","g","e">>)
    /\ Contains(stageOut, <<"@","D","a","m","a","g","e","[","(","2","d","6","+","3",")","[","f","i","r","e","]","]"," ","d","a","m","a","g","e">>)
    /\ Contains(stageOut, <<"1","d","8"," ","h","o","l","y"," ","d","a","m","a","g","e">>)

(***************************************************************************)
(* Actor documents (ids.ts, bestiary-actor.ts)                             *)
(***************************************************************************)
HexSeq == DigitSeq \o <<"a","b","c","d","e","f">>

\* The characters of the keys; the action glyphs of ACTION_ICON_MAP, one
\* character each, are written by name.
KeyChars ==
    DigitSeq \o LowerSeq \o UpperSeq \o <<"-", " ", "(1)", "(2)", "(3)", "(r)", "(f)">>

CharCode(c) == CHOOSE k \in 1..Len(KeyChars) : KeyChars[k] = c

\* createHash("sha256").update(key).digest(): SHA-256 itself is outside the
\* model; the digest is a fixed function of the characters of the key, kept
\* here as four 16-bit words, the first eight bytes of the digest.
DigestSeed == <<27145, 48031, 15547, 42398>>
DigestStep == <<31, 37, 41, 43>>
RECURSIVE Digest(_, _, _)
Digest(key, i, words) ==
    IF i > Len(key) THEN words
    ELSE Digest(key, i + 1,
                [k \in 1..4 |-> (words[k] * DigestStep[k] + CharCode(key[i]) + k) % 65536])

\* .digest("hex"): four lower-case hex digits for each 16-bit word
HexOfWord(w) ==
    <<HexSeq[(w \div 4096) + 1], HexSeq[((w \div 256) % 16) + 1],
      HexSeq[((w \div 16) % 16) + 1], HexSeq[(w % 16) + 1]>>

\* createHash("sha256").update(key).digest("hex").slice(0, 16)
generateId(key) ==
    Concat([k \in 1..4 |-> HexOfWord(Digest(key, 1, DigestSeed)[k])])

ACTION_ICON_MAP ==
    << [icon |-> "(1)", actionType |-> "action",   actions |-> JsNum(1)],
       [icon |-> "(2)", actionType |-> "action",   actions |-> JsNum(2)],
       [icon |-> "(3)", actionType |-> "action",   actions |-> JsNum(3)],
       [icon |-> "(r)", actionType |-> "reaction", actions |-> Null],
       [icon |-> "(f)", actionType |-> "free",     actions |-> Null] >>

\* parseActionFromName(raw)
parseActionFromName(raw) ==
    IF \E k \in 1..Len(ACTION_ICON_MAP) : Len(raw) > 0 /\ raw[1] = ACTION_ICON_MAP[k].icon
    THEN [cleanName  |-> trim(Tail(raw)),
          actionType |-> ACTION_ICON_MAP[CHOOSE k \in 1..Len(ACTION_ICON_MAP) :
                                             raw[1] = ACTION_ICON_MAP[k].icon].actionType,
          actions    |-> ACTION_ICON_MAP[CHOOSE k \in 1..Len(ACTION_ICON_MAP) :
                                             raw[1] = ACTION_ICON_MAP[k].icon].actions]
    ELSE [cleanName |-> raw, actionType |-> "passive", actions |-> Null]

\* `!actors.items!${actorId}.${itemId}`
ItemKey(actorId, itemId) == <<"!","a","c","t","o","r","s",".","i","t","e","m","s","!">> \o actorId \o <<".">> \o itemId

\* An item of the document: its identifiers, name, sort and type, with the
\* keys of damageRolls for a strike and the description for an ability; the
\* rest of its system data, which no identifier is read from, is left out.
ItemWith(itemId, actorId, name, sort, type, damageRolls, description) ==
    [_id |-> itemId, _key |-> ItemKey(actorId, itemId), name |-> name, sort |-> sort,
     type |-> type, damageRolls |-> damageRolls, description |-> description]

\* a strike item that takes its identifier from the place of the strike
buildMeleeItemBySort(strike, creatureSlug, actorId, sort) ==
    ItemWith(generateId(creatureSlug \o <<"-","s","t","r","i","k","e","-">> \o NatToStr(sort)),
             actorId, strike.name, sort, "melee",
             [i \in 1..strike.damage |->
                 generateId(creatureSlug \o <<"-">> \o strike.name \o <<"-","d","m","g","-">> \o NatToStr(i - 1))],
             <<>>)

\* buildMeleeItem(strike, creatureSlug, actorId, sort); strike.damage is
\* kept as the number of its entries
buildMeleeItem(strike, creatureSlug, actorId, sort) ==
    ItemWith(generateId(creatureSlug \o <<"-","s","t","r","i","k","e","-">> \o strike.name),
             actorId, strike.name, sort, "melee",
             [i \in 1..strike.damage |->
                 generateId(creatureSlug \o <<"-">> \o strike.name \o <<"-","d","m","g","-">> \o NatToStr(i - 1))],
             <<>>)

\* buildActionItem(ability, creatureSlug, actorId, sort)
buildActionItem(ability, creatureSlug, actorId, sort) ==
    ItemWith(generateId(creatureSlug \o <<"-","a","b","i","l","i","t","y","-">> \o parseActionFromName(ability.name).cleanName),
             actorId, parseActionFromName(ability.name).cleanName, sort, "action",
             <<>>, enrichDescription(ability.desc))

\* buildSpellcastingItem(entry, creatureSlug, actorId, sort)
buildSpellcastingItem(entry, creatureSlug, actorId, sort) ==
    ItemWith(generateId(creatureSlug \o <<"-","s","p","e","l","l","c","a","s","t","i","n","g","-">> \o entry.name),
             actorId, entry.name, sort, "spellcastingEntry",
             <<>>, IF Len(entry.desc) > 0 THEN enrichDescription(entry.desc) ELSE <<>>)

\* buildLoreItem(lore, creatureSlug, actorId, sort)
buildLoreItem(lore, creatureSlug, actorId, sort) ==
    ItemWith(generateId(creatureSlug \o <<"-","l","o","r","e","-">> \o lore.name),
             actorId, lore.name, sort, "lore", <<>>, <<>>)

\* the items of buildActorDocument, sortCounter going up by 100000 for each;
\* an absent spellcasting or lore list is one without entries
ItemsOf(sb, slug, actorId) ==
    [i \in 1..Len(sb.strikes) |->
        buildMeleeItem(sb.strikes[i], slug, actorId, 100000 * i)]
    \o [i \in 1..Len(sb.abilities_top \o sb.abilities_mid \o sb.abilities_bot) |->
        buildActionItem((sb.abilities_top \o sb.abilities_mid \o sb.abilities_bot)[i], slug, actorId,
                        100000 * (Len(sb.strikes) + i))]
    \o [i \in 1..Len(sb.spellcasting) |->
        buildSpellcastingItem(sb.spellcasting[i], slug, actorId,
            100000 * (Len(sb.strikes)
                      + Len(sb.abilities_top \o sb.abilities_mid \o sb.abilities_bot) + i))]
    \o [i \in 1..Len(sb.lore) |->
        buildLoreItem(sb.lore[i], slug, actorId,
            100000 * (Len(sb.strikes)
                      + Len(sb.abilities_top \o sb.abilities_mid \o sb.abilities_bot)
                      + Len(sb.spellcasting) + i))]

\* buildActorDocument(creature), without the actor's system data
buildActorDocument(c) ==
    [_id   |-> generateId(c.slug),
     _key  |-> <<"!","a","c","t","o","r","s","!">> \o generateId(c.slug),
     name  |-> c.statblock.name,
     type  |-> "npc",
     items |-> ItemsOf(c.statblock, c.slug, generateId(c.slug)),
     flags |-> [source |-> "vault", slug |-> c.slug]]

(***************************************************************************)
(* Inputs and runs of the actor builder                                    *)
(***************************************************************************)
MaxItems == 2
MaxBuilds == 2

\* the lists of at most MaxItems members of a set
ListsOf(S) == UNION {[1..n -> S] : n \in 0..MaxItems}

ActorCreatures ==
    {[slug |-> slug,
      statblock |-> [name |-> <<"S","c","r","a","p"," ","R","a","t">>, strikes |-> strikes,
                     abilities_top |-> top, abilities_mid |-> <<>>, abilities_bot |-> bot,
                     spellcasting |-> spells, lore |-> lore]] :
        slug \in {<<"s","c","r","a","p","-","r","a","t">>, <<"r","a","t">>},
        strikes \in ListsOf({[name |-> <<"j","a","w","s">>, damage |-> 1], [name |-> <<"c","l","a","w">>, damage |-> 2]}),
        top \in {<<>>, <<[name |-> <<"(1)", " ">> \o <<"B","i","t","e">>, desc |-> <<"P","r","o","n","e">>]>>,
                 <<[name |-> <<"G","n","a","w">>, desc |-> <<>>]>>},
        bot \in {<<>>, <<[name |-> <<"B","i","t","e">>, desc |-> <<"1","d","8"," ","h","o","l","y"," ","d","a","m","a","g","e">>]>>},
        spells \in {<<>>, <<[name |-> <<"A","r","c","a","n","e"," ","I","n","n","a","t","e"," ","S","p","e","l","l","s">>, desc |-> <<>>]>>},
        lore \in {<<>>, <<[name |-> <<"W","a","r","f","a","r","e"," ","L","o","r","e">>]>>, <<[name |-> <<"j","a","w","s">>]>>}}

ActorInit ==
    /\ creature \in ActorCreatures
    /\ built = <<>>
    /\ ConverterIdle
    /\ PradIdle
    /\ DegreeIdle
    /\ SavesIdle

\* one run of the converter: buildActorDocument(creature)
BuildActor ==
    /\ Len(built) < MaxBuilds
    /\ built' = Append(built, buildActorDocument(creature))
    /\ UNCHANGED <<creature, bestiaryVars, enrichVars, pradVars, degreeVars, savesVars>>

ActorNext == BuildActor

SpecActor == ActorInit /\ [][ActorNext]_vars

(***************************************************************************)
(* Properties of the actor builder                                         *)
(***************************************************************************)
IsHexId(id) ==
    /\ Len(id) = 16
    /\ \A k \in 1..16 : id[k] \in DigitChars \cup {"a","b","c","d","e","f"}

\* the kind of key an item of each type is identified by
KindOfType(type) ==
    CASE type = "melee" -> <<"s","t","r","i","k","e">>
      [] type = "action" -> <<"a","b","i","l","i","t","y">>
      [] type = "spellcastingEntry" -> <<"s","p","e","l","l","c","a","s","t","i","n","g">>
      [] type = "lore" -> <<"l","o","r","e">>

\* C21: every build of a creature gives the same identifiers: the actor's is
\* the 16 lower-case hex digits of its slug, each item's the 16 of the slug,
\* the kind of the item and its name.
IdsDependOnNamesOnly ==
    \A n \in 1..Len(built) :
        /\ IsHexId(built[n]._id)
        /\ built[n]._id = generateId(creature.slug)
        /\ built[n]._id = built[1]._id
        /\ Len(built[n].items) = Len(built[1].items)
        /\ \A i \in 1..Len(built[n].items) :
              /\ IsHexId(built[n].items[i]._id)
              /\ built[n].items[i]._id = built[1].items[i]._id
              /\ built[n].items[i]._id =
                    generateId(creature.slug \o <<"-">> \o KindOfType(built[n].items[i].type)
                                   \o <<"-">> \o built[n].items[i].name)

\* a creature with a strike, an ability with a glyph and a lore skill has
\* been built twice
BuiltTwiceReached ==
    /\ Len(built) = 2
    /\ \E i, j, k \in 1..Len(built[2].items) :
          /\ built[2].items[i].type = "melee"
          /\ built[2].items[j].type = "action"
          /\ built[2].items[j].name = <<"B","i","t","e">>
          /\ built[2].items[k].type = "lore"

\* C30: the items of one actor document have pairwise distinct identifiers.
ItemIdsDistinct ==
    \A n \in 1..Len(built) :
        \A i, j \in 1..Len(built[n].items) :
            i # j => built[n].items[i]._id # built[n].items[j]._id

(***************************************************************************)
(* Players Roll All Dice on one client (hooks/ready.ts, prad/settings.ts,  *)
(* shared/dc.ts, prad/intercept-attack.ts)                                 *)
(***************************************************************************)
\* how many roll messages the system creates in one run
MaxMessages == 2

\* toDC(modifier), also exported as getAttackDC and getSaveDC
toDC(modifier) == dcBase + modifier
getAttackDC(modifier) == toDC(modifier)
getSaveDC(modifier) == toDC(modifier)

\* applyDCBaseSetting(): setDCBase(strict ? DC_BASE_STRICT : DC_BASE_DEFAULT).
\* No function of the module calls it, so it is no part of any step below.
applyDCBaseSetting ==
    dcBase' = IF settings.pradStrictDCs THEN DC_BASE_STRICT ELSE DC_BASE_DEFAULT

PRAD_HOOKS == {"preCreateChatMessage", "renderChatMessage", "renderActorSheet"}

\* PRAD whenever its own setting is on
pradEnabledAlone(s) == s.playersRollAllDice

\* const pradEnabled = isPradEnabled() && targetHelperEnabled
pradEnabled(s) == s.playersRollAllDice /\ s.enableTargetHelper

\* onReady(): registerAttackInterceptHook() registers preCreateChatMessage
\* and renderChatMessage, registerPradSheetHooks() renderActorSheet;
\* activateTargetHelper() is kept as the one name "targetHelper"
OnReady ==
    /\ ~ready
    /\ ready' = TRUE
    /\ hooks' = IF ~settings.enableCustomRules THEN hooks
                ELSE hooks \cup (IF settings.enableTargetHelper THEN {"targetHelper"} ELSE {})
                           \cup (IF pradEnabled(settings) THEN PRAD_HOOKS ELSE {})
    /\ UNCHANGED <<settings, isGM, dcBase, pradRollInProgress, postings, created, chat>>
    /\ UNCHANGED <<bestiaryVars, enrichVars, actorVars, degreeVars, savesVars>>

\* the attack modifier _onPreCreateChatMessage takes: the bonus of the
\* striking item, else the enabled modifiers of the flags, else the total of
\* the roll less its die
AttackModifierOf(m) ==
    IF m.strikeMod # 0 THEN m.strikeMod
    ELSE IF m.flagsMod # 0 THEN m.flagsMod
    ELSE m.rollMod

\* _onPreCreateChatMessage(message) returns false: the message is an attack
\* roll of the system by an NPC on a character, seen on the GM's client
\* while no attack card is being posted
Intercepts(m) ==
    /\ ~pradRollInProgress
    /\ isGM
    /\ m.rollType = "attack-roll"
    /\ m.speaker = "npc"
    /\ m.target = "character"

\* The system creates a roll message on this client. With the hook
\* registered and the message intercepted, postAttackCard starts, running up
\* to its first await, and the message is cancelled; otherwise the message
\* is created.
CreateRollMessage(m) ==
    /\ ready
    /\ created < MaxMessages
    /\ created' = created + 1
    /\ IF "preCreateChatMessage" \in hooks /\ Intercepts(m)
       THEN /\ pradRollInProgress' = TRUE
            /\ postings' = Append(postings, [modifier |-> AttackModifierOf(m),
                                             attackDC |-> getAttackDC(AttackModifierOf(m)),
                                             at |-> "render"])
            /\ chat' = chat
       ELSE /\ chat' = Append(chat, [kind |-> m.rollType, speaker |-> m.speaker,
                                     target |-> m.target, attackDC |-> 0])
            /\ UNCHANGED <<pradRollInProgress, postings>>
    /\ UNCHANGED <<settings, isGM, ready, hooks, dcBase>>
    /\ UNCHANGED <<bestiaryVars, enrichVars, actorVars, degreeVars, savesVars>>

\* postAttackCard: await renderTemplate(...) has returned
TemplateRendered(i) ==
    /\ i \in 1..Len(postings)
    /\ postings[i].at = "render"
    /\ postings' = [postings EXCEPT ![i].at = "create"]
    /\ UNCHANGED <<settings, isGM, ready, hooks, dcBase, pradRollInProgress, created, chat>>
    /\ UNCHANGED <<bestiaryVars, enrichVars, actorVars, degreeVars, savesVars>>

\* postAttackCard: await ChatMessage.create(...) of the card. The card has
\* no flags of the system, so the hook lets it through whatever the value of
\* _pradRollInProgress.
CardCreated(i) ==
    /\ i \in 1..Len(postings)
    /\ postings[i].at = "create"
    /\ chat' = Append(chat, [kind |-> "attack-card", speaker |-> "npc",
                             target |-> "character", attackDC |-> postings[i].attackDC])
    /\ postings' = [postings EXCEPT ![i].at = "finally"]
    /\ UNCHANGED <<settings, isGM, ready, hooks, dcBase, pradRollInProgress, created>>
    /\ UNCHANGED <<bestiaryVars, enrichVars, actorVars, degreeVars, savesVars>>

\* postAttackCard: finally { _pradRollInProgress = false }
PostingDone(i) ==
    /\ i \in 1..Len(postings)
    /\ postings[i].at = "finally"
    /\ pradRollInProgress' = FALSE
    /\ postings' = [k \in 1..(Len(postings) - 1) |->
                       IF k < i THEN postings[k] ELSE postings[k + 1]]
    /\ UNCHANGED <<settings, isGM, ready, hooks, dcBase, created, chat>>
    /\ UNCHANGED <<bestiaryVars, enrichVars, actorVars, degreeVars, savesVars>>

(***************************************************************************)
(* Inputs and runs of PRAD                                                 *)
(***************************************************************************)
RollMessages ==
    {[rollType |-> kind[1], speaker |-> kind[2], target |-> kind[3],
      strikeMod |-> mods[1], flagsMod |-> mods[2], rollMod |-> 3] :
        kind \in {<<"attack-roll", "npc", "character">>, <<"attack-roll", "npc", "npc">>,
                  <<"attack-roll", "character", "npc">>, <<"damage-roll", "npc", "character">>,
                  <<"attack-roll", "npc", "none">>},
        mods \in {<<7, 0>>, <<0, 5>>, <<0, 0>>}}

PradInit ==
    /\ settings \in [enableCustomRules : BOOLEAN, enableTargetHelper : BOOLEAN,
                     playersRollAllDice : BOOLEAN, pradStrictDCs : BOOLEAN]
    /\ isGM \in BOOLEAN
    /\ ready = FALSE
    /\ hooks = {}
    /\ dcBase = DC_BASE_DEFAULT
    /\ pradRollInProgress = FALSE
    /\ postings = <<>>
    /\ created = 0
    /\ chat = <<>>
    /\ ConverterIdle
    /\ ActorIdle
    /\ DegreeIdle
    /\ SavesIdle

PradNext ==
    \/ OnReady
    \/ \E m \in RollMessages : CreateRollMessage(m)
    \/ \E i \in 1..MaxMessages : TemplateRendered(i)
    \/ \E i \in 1..MaxMessages : CardCreated(i)
    \/ \E i \in 1..MaxMessages : PostingDone(i)

SpecPrad == PradInit /\ [][PradNext]_vars

(***************************************************************************)
(* Properties of PRAD                                                      *)
(***************************************************************************)
\* C22: with PRAD active on the GM's client, no attack roll of an NPC on a
\* character is ever created as a chat message: each is cancelled for an
\* attack card, whatever postings are in flight.
NpcAttacksNeverCreated ==
    (isGM /\ "preCreateChatMessage" \in hooks) =>
        \A k \in 1..Len(chat) :
            ~(chat[k].kind = "attack-roll" /\ chat[k].speaker = "npc"
                                           /\ chat[k].target = "character")

\* C23: once the ready hook has run, the hooks of attack interception and
\* of sheet augmentation are registered exactly when Enable Custom Rules,
\* Enable Target Helper and Players Roll All Dice are all on.
PradHooksIffAllThreeOn ==
    ready =>
        /\ (PRAD_HOOKS \subseteq hooks) <=>
              (settings.enableCustomRules /\ settings.enableTargetHelper
                                          /\ settings.playersRollAllDice)
        /\ (PRAD_HOOKS \cap hooks # {}) <=>
              (settings.enableCustomRules /\ settings.enableTargetHelper
                                          /\ settings.playersRollAllDice)

\* the ready hook has run with the three settings on and has registered the
\* hooks
PradHooksRegisteredReached ==
    /\ ready
    /\ settings.enableCustomRules /\ settings.enableTargetHelper /\ settings.playersRollAllDice
    /\ PRAD_HOOKS \subseteq hooks

\* C28: once the ready hook has run, every DC that toDC, getAttackDC or
\* getSaveDC derives is 12 + modifier with pradStrictDCs on and
\* 11 + modifier with it off.
DcBaseFollowsStrictSetting ==
    ready =>
        /\ \A modifier \in 0..10 :
              /\ toDC(modifier) = (IF settings.pradStrictDCs THEN 12 ELSE 11) + modifier
              /\ getAttackDC(modifier) = toDC(modifier)
              /\ getSaveDC(modifier) = toDC(modifier)
        /\ \A i \in 1..Len(postings) :
              postings[i].attackDC =
                  (IF settings.pradStrictDCs THEN 12 ELSE 11) + postings[i].modifier

(***************************************************************************)
(* Degrees of success of an armor save (shared/degree.ts, shared/dc.ts)    *)
(***************************************************************************)
\* the faces of the d20 that calculateDegree knows by dieValue === 20
DieFaces == 20

\* calculateDegree(total, dc, dieValue)
calculateDegree(total, dc, dieValue) ==
    LET degree == IF total - dc >= 10 THEN 3
                  ELSE IF total - dc >= 0 THEN 2
                  ELSE IF total - dc <= -10 THEN 0
                  ELSE 1
        \* Math.min(degree + 1, 3) on a natural 20
        up     == IF dieValue = DieFaces THEN (IF degree + 1 < 3 THEN degree + 1 ELSE 3) ELSE degree
        \* Math.max(degree - 1, 0) on a natural 1
    IN  IF dieValue = 1 THEN (IF up - 1 > 0 THEN up - 1 ELSE 0) ELSE up

\* invertDegreeIndex(degree)
invertDegreeIndex(degree) == 3 - degree

\* getArmorSaveModifier(ac)
getArmorSaveModifier(armorClass) == armorClass - 10

\* what the NPC gets when the player rolls dieValue on the armor save: 0
\* critical miss, 1 miss, 2 hit, 3 critical hit
ArmorSaveOutcome(dieValue) ==
    invertDegreeIndex(calculateDegree(dieValue + getArmorSaveModifier(ac),
                                      getAttackDC(attackModifier), dieValue))

\* what the NPC gets when it rolls dieValue on its own attack against ac
AttackRollOutcome(dieValue) == calculateDegree(dieValue + attackModifier, ac, dieValue)

\* The next face of the d20 is resolved both ways and counted.
ResolveFace ==
    /\ face < DieFaces
    /\ face' = face + 1
    /\ saveTally' = [saveTally EXCEPT ![ArmorSaveOutcome(face + 1)] = @ + 1]
    /\ attackTally' = [attackTally EXCEPT ![AttackRollOutcome(face + 1)] = @ + 1]
    /\ UNCHANGED <<attackModifier, ac>>
    /\ UNCHANGED <<bestiaryVars, enrichVars, actorVars, pradVars, savesVars>>

\* setDCBase(base) has been called with one of the two bases
DegreeInit ==
    /\ attackModifier \in {5, 12, 30}
    /\ ac \in {15, 18, 40}
    /\ face = 0
    /\ saveTally = [outcome \in 0..3 |-> 0]
    /\ attackTally = [outcome \in 0..3 |-> 0]
    /\ dcBase \in {DC_BASE_DEFAULT, DC_BASE_STRICT}
    /\ settings = [enableCustomRules |-> FALSE, enableTargetHelper |-> FALSE,
                   playersRollAllDice |-> FALSE, pradStrictDCs |-> FALSE]
    /\ isGM = FALSE
    /\ ready = FALSE
    /\ hooks = {}
    /\ pradRollInProgress = FALSE
    /\ postings = <<>>
    /\ created = 0
    /\ chat = <<>>
    /\ ConverterIdle
    /\ ActorIdle
    /\ SavesIdle

DegreeNext == ResolveFace

SpecDegree == DegreeInit /\ [][DegreeNext]_vars

\* C27: with the strict DC base, the armor save gives each NPC outcome on as
\* many faces of the d20 as the NPC's own attack roll does, for every attack
\* modifier and armor class.
StrictBaseKeepsTheOdds ==
    (dcBase = 12 /\ face = DieFaces) =>
        \A outcome \in 0..3 : saveTally[outcome] = attackTally[outcome]

\* ---------------------------------------------------------------------------
\* Save results of one chat message (flags.ts, socket.ts, save-roll.ts)
\*
\* One message carries the target rows.  The world's database holds its
\* flags; every client holds a copy that it refreshes when the server tells it
\* of a change.  Document#update sends the server only the keys whose value
\* differs from the client's copy, and the server merges what it receives into
\* the stored object key by key.
\* ---------------------------------------------------------------------------
MaxCalls == 2

Clients == {"gm", "p1"}
Users == {"gm", "p1", "p2"}
Tok1 == <<"t","o","k","1">>
Tok2 == <<"t","o","k","2">>
Tok3 == <<"t","o","k","3">>
CanvasTokens == {Tok1, Tok2, Tok3}
TokenOwner(tokenId) ==
    IF tokenId = Tok1 THEN "p1" ELSE IF tokenId = Tok2 THEN "p2" ELSE "none"
targetUUIDs == <<<<"S","c","e","n","e",".","s","1",".","T","o","k","e","n",".","t","o","k","1">>, <<"S","c","e","n","e",".","s","1",".","T","o","k","e","n",".","t","o","k","2">>>>
TargetIds == {Tok1, Tok2}
RollFaces == {4, 17}

\* buildSaveResult: what a roll of the die leaves in the flag, for a save
\* modifier of +6 against DC 18
buildSaveResult(die) ==
    [value |-> die + 6, die |-> die,
     success |-> IF die + 6 >= 18 THEN "success" ELSE "failure"]

\* { ...existingSaves, ...saves }
MergeSaves(existingSaves, saves) ==
    [k \in (DOMAIN existingSaves) \cup (DOMAIN saves) |->
        IF k \in DOMAIN saves THEN saves[k] ELSE existingSaves[k]]

\* the keys of the update whose value is not the one the client already has
DiffSaves(mergedSaves, existingSaves) ==
    [k \in {j \in DOMAIN mergedSaves :
                j \notin DOMAIN existingSaves \/ existingSaves[j] # mergedSaves[j]} |->
        mergedSaves[k]]

\* who may update the message: a GM, or the user who owns it
canUserModify(user) == user = "gm" \/ user = author

\* updateSaves on one client: the requests it puts on their way to the server
updateSaves(client, saves) ==
    IF canUserModify(client)
           /\ DOMAIN DiffSaves(MergeSaves(localSaves[client], saves), localSaves[client]) # {}
    THEN <<[client |-> client,
            saves |-> saves,
            mergedSaves |-> MergeSaves(localSaves[client], saves),
            changes |-> DiffSaves(MergeSaves(localSaves[client], saves),
                                  localSaves[client])]>>
    ELSE <<>>

ApplyUpdateReplacing(storedSaves, update) == update.mergedSaves
\* the server merges the keys it received into the stored object
ApplyUpdate(storedSaves, update) == MergeSaves(storedSaves, update.changes)

RemoveAt(seq, i) == SubSeq(seq, 1, i - 1) \o SubSeq(seq, i + 1, Len(seq))

\* rollSavesForTargets up to its await: the targets without a result in the
\* client's copy start rolling
StartRoll(client, targets) ==
    /\ callsMade < MaxCalls
    /\ \A t \in targets : client = "gm" \/ TokenOwner(t) = client
    /\ {t \in targets : t \notin DOMAIN localSaves[client]} # {}
    /\ rollsInFlight' = Append(rollsInFlight,
            [client |-> client,
             targets |-> {t \in targets : t \notin DOMAIN localSaves[client]}])
    /\ callsMade' = callsMade + 1
    /\ UNCHANGED <<author, stored, localSaves, updatesInFlight, broadcasts,
                   socketInFlight>>
    /\ UNCHANGED <<bestiaryVars, enrichVars, actorVars, pradVars, degreeVars>>

\* the rolls resolve, and sendSaveUpdate runs: the GM updates the message, a
\* player relays the results to the GM and tries the update as well
FinishRoll(i, die) ==
    /\ i \in 1..Len(rollsInFlight)
    /\ LET roll == rollsInFlight[i]
           updates == [t \in roll.targets |-> buildSaveResult(die)]
       IN /\ socketInFlight' =
                 IF roll.client = "gm" THEN socketInFlight
                 ELSE Append(socketInFlight,
                             [action |-> "updateSaves", saves |-> updates,
                              userId |-> roll.client])
          /\ updatesInFlight' = updatesInFlight \o updateSaves(roll.client, updates)
    /\ rollsInFlight' = RemoveAt(rollsInFlight, i)
    /\ UNCHANGED <<author, stored, localSaves, broadcasts, callsMade>>
    /\ UNCHANGED <<bestiaryVars, enrichVars, actorVars, pradVars, degreeVars>>

\* the payloads that reach the GM from clients other than the two above
RelayedPayloads ==
    { [action |-> "updateSaves", userId |-> "p2",
       saves |-> (Tok1 :> buildSaveResult(4))],
      [action |-> "updateSaves", userId |-> "p2",
       saves |-> (Tok2 :> buildSaveResult(17) @@ <<"T","o","k","e","n">> :> buildSaveResult(17))],
      [action |-> "updateSaves", userId |-> "p2",
       saves |-> (Tok3 :> buildSaveResult(4))],
      [action |-> "updateSaves", userId |-> "p2",
       saves |-> (<<"T","o","k","e","n">> :> buildSaveResult(4))],
      [action |-> "updateSaves", userId |-> "nobody",
       saves |-> (Tok1 :> buildSaveResult(4))],
      [action |-> "updateSaves", userId |-> "gm",
       saves |-> (Tok2 :> buildSaveResult(4))],
      [action |-> "updateSaves", userId |-> "p2",
       saves |-> (Tok2 :> [value |-> 23, success |-> "success"])] }

RelayPayload(payload) ==
    /\ callsMade < MaxCalls
    /\ socketInFlight' = Append(socketInFlight, payload)
    /\ callsMade' = callsMade + 1
    /\ UNCHANGED <<author, stored, localSaves, rollsInFlight, updatesInFlight,
                   broadcasts>>
    /\ UNCHANGED <<bestiaryVars, enrichVars, actorVars, pradVars, degreeVars>>

isValidSocketMessage(data) ==
    /\ data.action = "updateSaves"
    /\ data.userId # ""
    /\ \A k \in DOMAIN data.saves :
           {"value", "die", "success"} \subseteq DOMAIN data.saves[k]

\* on the GM's client token.isOwner holds for every token of the canvas
validateSenderOwnership(userId, tokenIds) ==
    /\ userId \in Users
    /\ \/ userId = "gm"
       \/ \E tokenId \in tokenIds :
              /\ tokenId \in CanvasTokens
              /\ \/ TRUE
                 \/ TokenOwner(tokenId) \in Users \ {"gm"}

isInTargetList(tokenId) ==
    \E n \in 1..Len(targetUUIDs) : Contains(targetUUIDs[n], tokenId)

\* what onSocketMessage lets through to updateSaves
Accepts(data) ==
    /\ isValidSocketMessage(data)
    /\ \A tokenId \in DOMAIN data.saves : isInTargetList(tokenId)
    /\ validateSenderOwnership(data.userId, DOMAIN data.saves)

\* the GM's client handles the next payload of the socket
onSocketMessage ==
    /\ socketInFlight # <<>>
    /\ updatesInFlight' =
           IF Accepts(Head(socketInFlight))
           THEN updatesInFlight \o updateSaves("gm", Head(socketInFlight).saves)
           ELSE updatesInFlight
    /\ socketInFlight' = Tail(socketInFlight)
    /\ UNCHANGED <<author, stored, localSaves, rollsInFlight, broadcasts,
                   callsMade>>
    /\ UNCHANGED <<bestiaryVars, enrichVars, actorVars, pradVars, degreeVars>>

\* the server handles a request, the oldest of its client, and tells every
\* client what changed
ServerApply(i) ==
    /\ i \in 1..Len(updatesInFlight)
    /\ \A j \in 1..(i - 1) : updatesInFlight[j].client # updatesInFlight[i].client
    /\ IF canUserModify(updatesInFlight[i].client)
       THEN /\ stored' = ApplyUpdate(stored, updatesInFlight[i])
            /\ broadcasts' = [c \in Clients |->
                                  Append(broadcasts[c], updatesInFlight[i].changes)]
       ELSE UNCHANGED <<stored, broadcasts>>
    /\ updatesInFlight' = RemoveAt(updatesInFlight, i)
    /\ UNCHANGED <<author, localSaves, rollsInFlight, socketInFlight, callsMade>>
    /\ UNCHANGED <<bestiaryVars, enrichVars, actorVars, pradVars, degreeVars>>

\* a client takes in the next change the server told it of
Deliver(client) ==
    /\ broadcasts[client] # <<>>
    /\ localSaves' = [localSaves EXCEPT
                          ![client] = MergeSaves(@, Head(broadcasts[client]))]
    /\ broadcasts' = [broadcasts EXCEPT ![client] = Tail(@)]
    /\ UNCHANGED <<author, stored, rollsInFlight, updatesInFlight, socketInFlight,
                   callsMade>>
    /\ UNCHANGED <<bestiaryVars, enrichVars, actorVars, pradVars, degreeVars>>

SavesInit ==
    /\ author \in {"gm", "p1"}
    /\ stored = <<>>
    /\ localSaves = [c \in Clients |-> <<>>]
    /\ rollsInFlight = <<>>
    /\ updatesInFlight = <<>>
    /\ broadcasts = [c \in Clients |-> <<>>]
    /\ socketInFlight = <<>>
    /\ callsMade = 0
    /\ ConverterIdle
    /\ ActorIdle
    /\ PradIdle
    /\ DegreeIdle

SavesNext ==
    \/ \E client \in Clients : \E targets \in (SUBSET TargetIds) \ {{}} :
           StartRoll(client, targets)
    \/ \E i \in 1..MaxCalls : \E die \in RollFaces : FinishRoll(i, die)
    \/ \E payload \in RelayedPayloads : RelayPayload(payload)
    \/ onSocketMessage
    \/ \E i \in 1..(2 * MaxCalls) : ServerApply(i)
    \/ \E client \in Clients : Deliver(client)

SpecSaves == SavesInit /\ [][SavesNext]_vars

RelayNeedsOwnership ==
    [][(socketInFlight # <<>> /\ socketInFlight' = Tail(socketInFlight)
            /\ updatesInFlight' # updatesInFlight) =>
           \/ Head(socketInFlight).userId = "gm"
           \/ \E k \in DOMAIN Head(socketInFlight).saves :
                  TokenOwner(k) = Head(socketInFlight).userId]_vars

\* C26: a result that is stored for a target stays as it is.
RecordedResultStays ==
    [][\A k \in DOMAIN stored : k \in DOMAIN stored' /\ stored'[k] = stored[k]]_vars

\* C29: the GM's client lets a relayed update through only if each key of its
\* saves is the id of a token of the message's target list.
RelayKeysAreTargets ==
    [][(socketInFlight # <<>> /\ socketInFlight' = Tail(socketInFlight)
            /\ updatesInFlight' # updatesInFlight) =>
           DOMAIN Head(socketInFlight).saves \subseteq TargetIds]_vars
====
